---- MODULE Spec2Model ----
(***************************************************************************)
(* traefik-guard: the rule grammar (proto.rs), the per-group rule store    *)
(* with its index map and two lists (proto.rs), the security group service *)
(* (state.rs), the tag filter (tags.rs) and the locked HTTP handlers       *)
(* (endpoints.rs, endpoints/react.rs).                                     *)
(*                                                                         *)
(* Rust strings are TLA+ strings, read character by character with SubSeq. *)
(* Option<T> is a sequence of length 0 (None) or 1 (Some).                 *)
(***************************************************************************)
EXTENDS Integers, Sequences, FiniteSets, TLC

VARIABLES groups, files, denied, call, order, fin, fout, pc, req, mutex, obs

svcVars == <<groups, files, denied, call, order>>
fnVars == <<fin, fout>>
lockVars == <<pc, req, mutex, obs>>
vars == <<groups, files, denied, call, order, fin, fout, pc, req, mutex, obs>>

----------------------------------------------------------------------------
(* Strings *)

Char(s, i) == SubSeq(s, i, i)

Digits == {"0", "1", "2", "3", "4", "5", "6", "7", "8", "9"}

DigitVal(c) ==
  CASE c = "0" -> 0 [] c = "1" -> 1 [] c = "2" -> 2 [] c = "3" -> 3 [] c = "4" -> 4
    [] c = "5" -> 5 [] c = "6" -> 6 [] c = "7" -> 7 [] c = "8" -> 8 [] OTHER -> 9

DigitChar(d) ==
  CASE d = 0 -> "0" [] d = 1 -> "1" [] d = 2 -> "2" [] d = 3 -> "3" [] d = 4 -> "4"
    [] d = 5 -> "5" [] d = 6 -> "6" [] d = 7 -> "7" [] d = 8 -> "8" [] OTHER -> "9"

StartsWith(s, p) == Len(s) >= Len(p) /\ SubSeq(s, 1, Len(p)) = p

RECURSIVE SplitAcc(_, _, _, _)
SplitAcc(s, d, i, cur) ==
  IF i > Len(s) THEN <<cur>>
  ELSE IF Char(s, i) = d THEN <<cur>> \o SplitAcc(s, d, i + 1, "")
  ELSE SplitAcc(s, d, i + 1, cur \o Char(s, i))

\* str::split on a one-character pattern: "" gives <<"">>, "a," gives <<"a", "">>
Split(s, d) == SplitAcc(s, d, 1, "")

RECURSIVE Join(_, _)
Join(parts, d) ==
  IF Len(parts) = 0 THEN ""
  ELSE IF Len(parts) = 1 THEN parts[1]
  ELSE parts[1] \o d \o Join(Tail(parts), d)

RECURSIVE TrimStart(_)
TrimStart(s) == IF Len(s) > 0 /\ Char(s, 1) = " " THEN TrimStart(SubSeq(s, 2, Len(s))) ELSE s

RECURSIVE TrimEnd(_)
TrimEnd(s) ==
  IF Len(s) > 0 /\ Char(s, Len(s)) = " " THEN TrimEnd(SubSeq(s, 1, Len(s) - 1)) ELSE s

\* str::trim, over the one whitespace character the model's texts use
Trim(s) == TrimEnd(TrimStart(s))

\* str::lines: split on "\n", a final empty piece is not a line
Lines(text) ==
  LET p == Split(text, "\n")
  IN  IF p[Len(p)] = "" THEN SubSeq(p, 1, Len(p) - 1) ELSE p

RECURSIVE DecValue(_, _, _, _)
DecValue(s, i, acc, max) ==
  IF i > Len(s) THEN acc
  ELSE IF Char(s, i) \notin Digits THEN -1
  ELSE IF acc * 10 + DigitVal(Char(s, i)) > max THEN -1
  ELSE DecValue(s, i + 1, acc * 10 + DigitVal(Char(s, i)), max)

\* <unsigned>::from_str: an optional "+", then at least one digit, no overflow;
\* -1 stands for Err
ParseUnsigned(s, max) ==
  LET body == IF StartsWith(s, "+") THEN SubSeq(s, 2, Len(s)) ELSE s
  IN  IF body = "" THEN -1 ELSE DecValue(body, 1, 0, max)

U16Max == 65535

RECURSIVE ToDec(_)
ToDec(n) == IF n < 10 THEN DigitChar(n) ELSE ToDec(n \div 10) \o DigitChar(n % 10)

RECURSIVE Pow2(_)
Pow2(n) == IF n = 0 THEN 1 ELSE 2 * Pow2(n - 1)

----------------------------------------------------------------------------
(* Ipv4Addr and Ipv4Network *)

\* one octet of Ipv4Addr::from_str: 1 to 3 digits, no leading zero, at most 255
IsOctet(o) ==
  /\ Len(o) \in 1..3
  /\ \A i \in 1..Len(o) : Char(o, i) \in Digits
  /\ (Len(o) > 1 => Char(o, 1) # "0")
  /\ DecValue(o, 1, 0, 255) # -1

IsIpv4(s) ==
  LET p == Split(s, ".")
  IN  Len(p) = 4 /\ \A i \in 1..4 : IsOctet(p[i])

\* the four octets of an address
Octets(s) ==
  LET p == Split(s, ".")
  IN  [i \in 1..4 |-> DecValue(p[i], 1, 0, 255)]

\* Ipv4Network::from_str on "addr/prefix", prefix a u8 of at most 32
IsIpv4Network(s) ==
  LET p == Split(s, "/")
  IN  Len(p) = 2 /\ IsIpv4(p[1]) /\ ParseUnsigned(p[2], 255) \in 0..32

\* Display of the parsed network: the address, "/", the prefix in decimal
NetCanon(s) ==
  LET p == Split(s, "/")
  IN  p[1] \o "/" \o ToDec(ParseUnsigned(p[2], 255))

\* Ipv4Network::contains: the first `prefix` bits of the two addresses agree
\* (compared octet by octet: the 32-bit mask of the code, without 32-bit numbers)
NetContains(net, ip) ==
  LET p == Split(net, "/")
      prefix == ParseUnsigned(p[2], 255)
      a == Octets(p[1])
      b == Octets(ip)
      whole == prefix \div 8
      bits == prefix % 8
  IN  /\ \A i \in 1..whole : a[i] = b[i]
      /\ bits > 0 => a[whole + 1] \div Pow2(8 - bits) = b[whole + 1] \div Pow2(8 - bits)

----------------------------------------------------------------------------
(* Source, Target, Access, Reaction *)

SourceAny == [t |-> "Any", v |-> ""]
FromIpv4(ip) == [t |-> "FromIpv4", v |-> ip]
FromIpv4Network(net) == [t |-> "FromIpv4Network", v |-> net]
FromCountry(c) == [t |-> "FromCountry", v |-> c]
FromCity(c) == [t |-> "FromCity", v |-> c]

SourceToString(src) == IF src.t = "Any" THEN "*" ELSE src.v

SourceParse(input) ==
  IF input = "" \/ input = "*" THEN SourceAny
  ELSE IF Len(input) = 2 THEN FromCountry(input)
  ELSE IF IsIpv4(input) THEN FromIpv4(input)
  ELSE IF IsIpv4Network(input) THEN FromIpv4Network(NetCanon(input))
  ELSE FromCity(input)

TargetAny == [t |-> "Any", v |-> ""]
Path(p) == [t |-> "Path", v |-> p]
PathPrefix(p) == [t |-> "PathPrefix", v |-> p]

\* a Target::to_string that writes a path prefix without its "^"
TargetToStringNoCaret(tg) == tg.v

TargetToString(tg) ==
  CASE tg.t = "Any" -> ""
    [] tg.t = "Path" -> tg.v
    [] OTHER -> "^" \o tg.v

TargetParse(input) ==
  IF input = "" THEN TargetAny
  ELSE IF Char(input, 1) = "/" THEN Path(input)
  ELSE IF Char(input, 1) = "^" THEN PathPrefix(SubSeq(input, 2, Len(input)))
  ELSE TargetAny

From(src) == [k |-> "From", s |-> src]
Excluding(src) == [k |-> "Excluding", s |-> src]

AccessToString(a) ==
  IF a.k = "From" THEN SourceToString(a.s) ELSE "-" \o SourceToString(a.s)

AccessParse(input) ==
  IF Len(input) > 1 /\ Char(input, 1) = "-"
  THEN Excluding(SourceParse(SubSeq(input, 2, Len(input))))
  ELSE From(SourceParse(input))

PermanentRedirect(loc) == [t |-> "PermanentRedirect", code |-> 301, loc |-> loc]
TemporaryRedirect(loc) == [t |-> "TemporaryRedirect", code |-> 302, loc |-> loc]
HttpStatus(code) == [t |-> "HttpStatus", code |-> code, loc |-> ""]

ReactionCode(r) == r.code

\* a redirect location that only a permanent redirect has
ReactionRedirectPermanentOnly(r) == IF r.t = "PermanentRedirect" THEN <<r.loc>> ELSE <<>>

\* Option<String>
ReactionRedirect(r) == IF r.t = "HttpStatus" THEN <<>> ELSE <<r.loc>>

Ok(v) == [ok |-> TRUE, v |-> v, err |-> ""]
Err(e) == [ok |-> FALSE, v |-> <<>>, err |-> e]

\* an extract that takes any status with a redirect and any text for a status
ReactionExtractLenient(input) ==
  LET parts == Split(input, "|")
      status == ParseUnsigned(parts[1], U16Max)
  IN  IF Len(parts) = 3
      THEN IF parts[1] = "302" THEN Ok(<<parts[2], TemporaryRedirect(parts[3])>>)
           ELSE Ok(<<parts[2], PermanentRedirect(parts[3])>>)
      ELSE IF Len(parts) = 1 THEN Ok(<<parts[1], HttpStatus(200)>>)
      ELSE Ok(<<parts[2], HttpStatus(IF status = -1 THEN 200 ELSE status)>>)

\* Reaction::extract: Ok(<<remaining, reaction>>) or Err
ReactionExtract(input) ==
  LET parts == Split(input, "|")
  IN  IF Len(parts) = 3
      THEN IF parts[1] # "301" /\ parts[1] # "302"
           THEN Err("redirect HTTP status expected 301 or 302")
           ELSE IF parts[1] = "301"
                THEN Ok(<<parts[2], PermanentRedirect(parts[3])>>)
                ELSE Ok(<<parts[2], TemporaryRedirect(parts[3])>>)
      ELSE IF Len(parts) = 1 THEN Ok(<<parts[1], HttpStatus(200)>>)
      ELSE IF ParseUnsigned(parts[1], U16Max) = -1 THEN Err("invalid HTTP status")
           ELSE Ok(<<parts[2], HttpStatus(ParseUnsigned(parts[1], U16Max))>>)

----------------------------------------------------------------------------
(* Rule *)

Rule(access, target, reaction, tags) ==
  [access |-> access, target |-> target, reaction |-> reaction, tags |-> tags]

\* Rule::has_access_conditions (the rule's access list is never empty:
\* Rule::parse fills it, and self.access[0] is read for a list of length <= 1)
has_access_conditions(r) ==
  ~(Len(r.access) = 1 /\ r.access[1] = From(SourceAny))

\* Rule::has_target_conditions
has_target_conditions(r) ==
  ~(Len(r.target) = 1 /\ r.target[1] = TargetAny)

PathKeys(tg) ==
  IF tg.t # "Path" THEN <<>>
  ELSE IF Len(tg.v) > 0 /\ Char(tg.v, Len(tg.v)) # "/" THEN <<tg.v \o "/", tg.v>>
  ELSE <<tg.v>>

AccessKeys(a) ==
  IF a.k = "From" /\ a.s.t \in {"FromIpv4", "FromCountry"} THEN <<a.s.v>> ELSE <<>>

RECURSIVE PathKeysOf(_)
PathKeysOf(target) ==
  IF Len(target) = 0 THEN <<>> ELSE PathKeys(Head(target)) \o PathKeysOf(Tail(target))

RECURSIVE AccessKeysOf(_)
AccessKeysOf(access) ==
  IF Len(access) = 0 THEN <<>> ELSE AccessKeys(Head(access)) \o AccessKeysOf(Tail(access))

\* Rule::index_keys
\* an index_keys that gives a rule constrained on both axes its access keys
index_keys_either_axis(r) ==
  IF ~has_access_conditions(r) THEN PathKeysOf(r.target) ELSE AccessKeysOf(r.access)

index_keys(r) ==
  IF ~has_access_conditions(r) THEN PathKeysOf(r.target)
  ELSE IF ~has_target_conditions(r) THEN AccessKeysOf(r.access)
  ELSE <<>>

IsTargetToken(part) == StartsWith(part, "/") \/ StartsWith(part, "^")

RECURSIVE TargetsOf(_)
TargetsOf(parts) ==
  IF Len(parts) = 0 THEN <<>>
  ELSE (IF IsTargetToken(Head(parts)) THEN <<TargetParse(Head(parts))>> ELSE <<>>)
       \o TargetsOf(Tail(parts))

RECURSIVE AccessesOf(_)
AccessesOf(parts) ==
  IF Len(parts) = 0 THEN <<>>
  ELSE (IF IsTargetToken(Head(parts)) THEN <<>> ELSE <<AccessParse(Head(parts))>>)
       \o AccessesOf(Tail(parts))

\* a parse that leaves a list without tokens empty
RuleParseNoDefaults(src) ==
  LET with_tags == Split(src, "#")
      tags == IF Len(with_tags) > 1 THEN Split(with_tags[2], ",") ELSE <<>>
      remains == IF Len(with_tags) > 1 THEN with_tags[1] ELSE src
      ex == ReactionExtract(remains)
  IN  IF ~ex.ok THEN Err(ex.err)
      ELSE Ok(Rule(AccessesOf(Split(ex.v[1], ",")), TargetsOf(Split(ex.v[1], ",")),
                   ex.v[2], tags))

\* Rule::parse: Ok(rule) or Err
RuleParse(src) ==
  LET with_tags == Split(src, "#")
      tags == IF Len(with_tags) > 1 THEN Split(with_tags[2], ",") ELSE <<>>
      remains == IF Len(with_tags) > 1 THEN with_tags[1] ELSE src
      ex == ReactionExtract(remains)
  IN  IF ~ex.ok THEN Err(ex.err)
      ELSE LET parts == Split(ex.v[1], ",")
               access == AccessesOf(parts)
               target == TargetsOf(parts)
           IN  Ok(Rule(IF Len(access) = 0 THEN <<From(SourceAny)>> ELSE access,
                       IF Len(target) = 0 THEN <<TargetAny>> ELSE target,
                       ex.v[2], tags))

RECURSIVE AccessStrings(_)
\* the non-empty strings of the access entries
AccessStrings(access) ==
  IF Len(access) = 0 THEN <<>>
  ELSE (IF Len(AccessToString(Head(access))) > 0
        THEN <<AccessToString(Head(access))>> ELSE <<>>)
       \o AccessStrings(Tail(access))

RECURSIVE TargetStrings(_)
\* the non-empty strings of the targets
TargetStrings(target) ==
  IF Len(target) = 0 THEN <<>>
  ELSE (IF Len(TargetToString(Head(target))) > 0
        THEN <<TargetToString(Head(target))>> ELSE <<>>)
       \o TargetStrings(Tail(target))

\* Rule::to_string
RuleToString(r) ==
  LET code == IF ReactionCode(r.reaction) # 200
              THEN <<ToDec(ReactionCode(r.reaction))>> ELSE <<>>
      parts == (IF has_access_conditions(r)
                THEN AccessStrings(r.access) ELSE <<>>)
               \o TargetStrings(r.target)
      out == code \o <<Join(parts, ",")>> \o ReactionRedirect(r.reaction)
  IN  Join(out, "|") \o (IF Len(r.tags) > 0 THEN "#" \o Join(r.tags, ",") ELSE "")

----------------------------------------------------------------------------
(* Visitor and Rule::react *)

Visitor(ip, country, city, uri) ==
  [ip |-> ip, country |-> country, city |-> city, uri |-> uri]

\* a target match in which a path stands for itself alone
TargetMatchesExact(tg, v) ==
  CASE tg.t = "Path" -> v.uri = tg.v
    [] tg.t = "PathPrefix" -> StartsWith(v.uri, tg.v)
    [] OTHER -> TRUE

TargetMatches(tg, v) ==
  CASE tg.t = "Path" -> v.uri = tg.v \/ v.uri = tg.v \o "/"
    [] tg.t = "PathPrefix" -> StartsWith(v.uri, tg.v)
    [] OTHER -> TRUE

\* the target loop of Rule::react: it stops at the first target that matches
match_target(r, v) ==
  Len(r.target) = 0 \/ \E i \in 1..Len(r.target) : TargetMatches(r.target[i], v)

SourceMatches(src, v, any) ==
  CASE src.t = "Any" -> any
    [] src.t = "FromIpv4" -> v.ip = src.v
    [] src.t = "FromIpv4Network" -> NetContains(src.v, v.ip)
    [] src.t = "FromCountry" -> v.country = <<src.v>>
    [] OTHER -> v.city = <<src.v>>

\* an access loop in which a satisfied Excluding entry changes nothing
AccessStepFromOnly(r, a, v, out) ==
  IF a.k = "From" /\ SourceMatches(a.s, v, TRUE) THEN <<r.reaction>> ELSE out

\* one turn of the access loop of Rule::react
AccessStep(r, a, v, out) ==
  IF a.k = "From"
  THEN IF SourceMatches(a.s, v, TRUE) THEN <<r.reaction>> ELSE out
  ELSE IF SourceMatches(a.s, v, FALSE) THEN <<>> ELSE out

RECURSIVE AccessLoop(_, _, _, _)
AccessLoop(r, i, v, out) ==
  IF i > Len(r.access) THEN out
  ELSE AccessLoop(r, i + 1, v, AccessStep(r, r.access[i], v, out))

\* Rule::react: Option<Reaction>
RuleReact(r, v) == IF ~match_target(r, v) THEN <<>> ELSE AccessLoop(r, 1, v, <<>>)

----------------------------------------------------------------------------
(* TagMap *)

\* TagMap::new
TagMapNew == [including |-> {}, excluding |-> {}]

RECURSIVE TagMapFold(_, _)
TagMapFold(tokens, tm) ==
  IF Len(tokens) = 0 THEN tm
  ELSE LET tag == Head(tokens)
       IN  TagMapFold(Tail(tokens),
             IF StartsWith(tag, "-")
             THEN [tm EXCEPT !.excluding = @ \cup {SubSeq(tag, 2, Len(tag))}]
             ELSE [tm EXCEPT !.including = @ \cup {tag}])

\* TagMap::from_query
TagMapFromQuery(input) == TagMapFold(Split(input, ","), TagMapNew)

\* a filter that looks at its including set only
TagMapMatchesIncluding(tm, tags) ==
  tm.including = {} \/ \E i \in 1..Len(tags) : tags[i] \in tm.including

\* TagMap::matches
TagMapMatches(tm, tags) ==
  IF tm.including = {} /\ tm.excluding = {} THEN TRUE
  ELSE IF \E i \in 1..Len(tags) : tags[i] \in tm.excluding THEN FALSE
  ELSE IF tm.including = {} THEN TRUE
  ELSE \E i \in 1..Len(tags) : tags[i] \in tm.including

\* RulesListOptions::tags, and the same match in main: no query gives
\* TagMap::new(), a query gives TagMap::from_query
OptionTags(query) == IF Len(query) = 0 THEN TagMapNew ELSE TagMapFromQuery(query[1])

----------------------------------------------------------------------------
(* SecurityGroup *)

EmptyMap == [k \in {} |-> HttpStatus(200)]

MapInsert(m, key, val) == [k \in DOMAIN m \cup {key} |-> IF k = key THEN val ELSE m[k]]

MapRemove(m, key) == [k \in DOMAIN m \ {key} |-> m[k]]

RECURSIVE MapInsertNew(_, _, _)
\* an insert that keeps the value of a key the map already holds
MapInsertNew(m, keys, val) ==
  IF Len(keys) = 0 THEN m
  ELSE MapInsertNew(IF Head(keys) \in DOMAIN m THEN m ELSE MapInsert(m, Head(keys), val),
                    Tail(keys), val)

RECURSIVE MapInsertAll(_, _, _)
MapInsertAll(m, keys, val) ==
  IF Len(keys) = 0 THEN m ELSE MapInsertAll(MapInsert(m, Head(keys), val), Tail(keys), val)

RECURSIVE MapRemoveAll(_, _)
MapRemoveAll(m, keys) ==
  IF Len(keys) = 0 THEN m ELSE MapRemoveAll(MapRemove(m, Head(keys)), Tail(keys))

\* SecurityGroup::new
SecurityGroupNew(name) ==
  [name |-> name, map_indexed |-> EmptyMap, list_indexed |-> <<>>, list_non_indexed |-> <<>>]

\* SecurityGroup::count
count(g) == Len(g.list_indexed) + Len(g.list_non_indexed)

\* the rules of a group by combined index: the indexed list, then the other
AllRules(g) == g.list_indexed \o g.list_non_indexed

\* SecurityGroup::add
add(g, r) ==
  LET keys == index_keys(r)
  IN  IF Len(keys) > 0
      THEN [g EXCEPT !.map_indexed = MapInsertAll(@, keys, r.reaction),
                     !.list_indexed = Append(@, r)]
      ELSE [g EXCEPT !.list_non_indexed = Append(@, r)]

RECURSIVE SelectIdx(_, _)
SelectIdx(indexes, n) ==
  IF Len(indexes) = 0 THEN <<>>
  ELSE (IF Head(indexes) < n THEN <<Head(indexes)>> ELSE <<>>) \o SelectIdx(Tail(indexes), n)

RECURSIVE SelectNonIdx(_, _)
SelectNonIdx(indexes, n) ==
  IF Len(indexes) = 0 THEN <<>>
  ELSE (IF Head(indexes) < n THEN <<>> ELSE <<Head(indexes) - n>>)
       \o SelectNonIdx(Tail(indexes), n)

\* a remove_many that leaves the keys of the removed rules in the map
DropKeysOfNone(m, list, idx) == m

RECURSIVE DropKeysOf(_, _, _)
DropKeysOf(m, list, idx) ==
  IF Len(idx) = 0 THEN m
  ELSE DropKeysOf(MapRemoveAll(m, index_keys(list[Head(idx) + 1])), list, Tail(idx))

RECURSIVE SkipFrom(_, _, _)
SkipFrom(list, idx, i) ==
  IF i > Len(list) THEN <<>>
  ELSE (IF \E j \in 1..Len(idx) : idx[j] = i - 1 THEN <<>> ELSE <<list[i]>>)
       \o SkipFrom(list, idx, i + 1)

\* the list without the (0-based) positions of idx
Skipping(list, idx) == SkipFrom(list, idx, 1)

\* the second rebuilding loop of SecurityGroup::remove_many: it iterates over
\* self.list_indexed (already rebuilt), skipping the non-indexed offsets
RebuildNonIndexed(new_list_indexed, idx_non_indexed) ==
  Skipping(new_list_indexed, idx_non_indexed)

\* SecurityGroup::remove_many
remove_many(g, indexes) ==
  LET n == Len(g.list_indexed)
      idx_indexed == SelectIdx(indexes, n)
      idx_non_indexed == SelectNonIdx(indexes, n)
      new_list_indexed ==
        IF Len(idx_indexed) > 0 THEN Skipping(g.list_indexed, idx_indexed)
        ELSE g.list_indexed
  IN  [g EXCEPT !.map_indexed = DropKeysOf(@, g.list_indexed, idx_indexed),
                !.list_indexed = new_list_indexed,
                !.list_non_indexed =
                   IF Len(idx_non_indexed) > 0
                   THEN RebuildNonIndexed(new_list_indexed, idx_non_indexed)
                   ELSE @]

\* a remove_by_index that leaves the keys of the removed rule in the map
remove_by_index_keeping_keys(g, index) ==
  IF index < Len(g.list_indexed)
  THEN [g EXCEPT !.list_indexed = Skipping(@, <<index>>)]
  ELSE [g EXCEPT !.list_non_indexed = Skipping(@, <<index - Len(g.list_indexed)>>)]

\* SecurityGroup::remove_by_index (index < count: the callers check it)
remove_by_index(g, index) ==
  IF index < Len(g.list_indexed) THEN remove_many(g, <<index>>)
  ELSE [g EXCEPT !.list_non_indexed = Skipping(@, <<index - Len(g.list_indexed)>>)]

\* a set_by_index that adds the rule and forgets to remove the old one
set_by_index_keeping(g, index, r) == add(g, r)

\* SecurityGroup::set_by_index
set_by_index(g, index, r) == add(remove_by_index(g, index), r)

\* SecurityGroup::set_many
set_many(g, indexes, r) == add(remove_many(g, indexes), r)

\* a reset that clears the two lists and leaves the index map
reset_lists_only(g) == [g EXCEPT !.list_indexed = <<>>, !.list_non_indexed = <<>>]

\* SecurityGroup::reset
reset(g) == [g EXCEPT !.map_indexed = EmptyMap, !.list_indexed = <<>>,
                      !.list_non_indexed = <<>>]

RECURSIVE WriteLines(_)
WriteLines(list) ==
  IF Len(list) = 0 THEN "" ELSE RuleToString(Head(list)) \o "\n" \o WriteLines(Tail(list))

\* a writer that starts with the non-indexed list
to_writer_non_indexed_first(g) ==
  WriteLines(g.list_non_indexed) \o WriteLines(g.list_indexed)

\* SecurityGroup::to_writer: the text of the group's file
to_writer(g) == WriteLines(g.list_indexed) \o WriteLines(g.list_non_indexed)

RECURSIVE ReadLines(_, _)
ReadLines(out, lines) ==
  IF Len(lines) = 0 THEN out
  ELSE LET ln == Trim(Head(lines))
           parsed == RuleParse(ln)
       IN  ReadLines(IF Len(ln) > 0 /\ ~StartsWith(ln, "#") /\ parsed.ok
                     THEN add(out, parsed.v) ELSE out,
                     Tail(lines))

\* SecurityGroup::from_reader
from_reader(name, text) == ReadLines(SecurityGroupNew(name), Lines(text))

----------------------------------------------------------------------------
(* SecurityGroupService *)

RulesRefAll == [kind |-> "All", index |-> 0, tag |-> TagMapNew]
RulesRefIndex(i) == [kind |-> "Index", index |-> i, tag |-> TagMapNew]
RulesRefTag(tm) == [kind |-> "Tag", index |-> 0, tag |-> tm]
NoRef == [kind |-> "None", index |-> 0, tag |-> TagMapNew]

\* what an operation returns: Ok (with its value), Err, or a panic
RetOk(index, reaction, out) ==
  [kind |-> "Ok", index |-> index, reaction |-> reaction, out |-> out, err |-> ""]
RetErr(e) == [kind |-> "Err", index |-> 0, reaction |-> <<>>, out |-> "", err |-> e]
RetPanic(e) == [kind |-> "Panic", index |-> 0, reaction |-> <<>>, out |-> "", err |-> e]

\* the storage path of the command line (cli.rs, default "./data")
StoragePath == "./data"

Suffix == ".rules.txt"

FileName(name) == name \o Suffix

RECURSIVE RemoveAll(_, _)
\* str::replace(pat, "")
RemoveAll(s, pat) ==
  IF Len(s) < Len(pat) THEN s
  ELSE IF StartsWith(s, pat) THEN RemoveAll(SubSeq(s, Len(pat) + 1, Len(s)), pat)
  ELSE Char(s, 1) \o RemoveAll(SubSeq(s, 2, Len(s)), pat)

\* SecurityGroupService::from_local_path: one group per file of the directory
from_local_path(dir) ==
  [n \in {RemoveAll(f, Suffix) : f \in DOMAIN dir} |->
     LET f == CHOOSE f \in DOMAIN dir : RemoveAll(f, Suffix) = n
     IN  from_reader(n, dir[f])]

\* SecurityGroupService::save: the directory after every group's file is rewritten
save(gs, dir) ==
  IF StoragePath = "" THEN dir
  ELSE [f \in DOMAIN dir \cup {FileName(n) : n \in DOMAIN gs} |->
          IF \E n \in DOMAIN gs : f = FileName(n)
          THEN to_writer(gs[CHOOSE n \in DOMAIN gs : f = FileName(n)])
          ELSE dir[f]]

\* the directory after save() when File::create fails for the paths in deny:
\* save_to_file returns Err for them and their files stay as they were in dir,
\* the other files are written as in saved
Written(dir, saved, deny) ==
  [f \in (DOMAIN dir) \cup ((DOMAIN saved) \ deny) |->
     IF f \in deny THEN dir[f] ELSE saved[f]]

\* the loop of create_rule: the group after the lines, the rules added, and
\* the error of the first line that does not parse (None: <<>>)
RECURSIVE CreateLoop(_, _, _)
CreateLoop(g, added, lines) ==
  IF Len(lines) = 0 THEN [g |-> g, added |-> added, err |-> <<>>]
  ELSE LET r == Trim(Head(lines))
           parsed == RuleParse(r)
       IN  IF Len(r) = 0 THEN CreateLoop(g, added, Tail(lines))
           ELSE IF ~parsed.ok THEN [g |-> g, added |-> added, err |-> <<parsed.err>>]
           ELSE CreateLoop(add(g, parsed.v), Append(added, parsed.v), Tail(lines))

\* usize subtraction count - 1 of a release build: it wraps; usize::MAX, the
\* residue of -1 modulo 2^64, is written -1
WrappingSub1(n) == n - 1

\* the combined indexes of the rules a tag filter matches, indexed list first
RECURSIVE MatchingFrom(_, _, _)
MatchingFrom(list, tm, i) ==
  IF i > Len(list) THEN <<>>
  ELSE (IF TagMapMatches(tm, list[i].tags) THEN <<i - 1>> ELSE <<>>)
       \o MatchingFrom(list, tm, i + 1)

MatchingIndexes(g, tm) == MatchingFrom(AllRules(g), tm, 1)

\* SecurityGroupService::list_rules_as_str
RECURSIVE ListLines(_, _)
ListLines(list, tm) ==
  IF Len(list) = 0 THEN ""
  ELSE (IF TagMapMatches(tm, Head(list).tags) THEN RuleToString(Head(list)) \o "\n" ELSE "")
       \o ListLines(Tail(list), tm)

list_rules_as_str(gs, name, tm) ==
  IF name \notin DOMAIN gs THEN ""
  ELSE ListLines(gs[name].list_indexed, tm) \o ListLines(gs[name].list_non_indexed, tm)

\* probing keys with the country ahead of the IP
visitor_index_keys_country_first(v) ==
  v.country \o <<v.ip>>
  \o (IF Len(v.uri) > 0 /\ Char(v.uri, Len(v.uri)) # "/" THEN <<v.uri \o "/">> ELSE <<>>)
  \o <<v.uri>>

\* visitor_index_keys
visitor_index_keys(v) ==
  <<v.ip>> \o v.country
  \o (IF Len(v.uri) > 0 /\ Char(v.uri, Len(v.uri)) # "/" THEN <<v.uri \o "/">> ELSE <<>>)
  \o <<v.uri>>

RECURSIVE FirstKey(_, _)
\* the first loop of react: Option<Reaction>
FirstKey(m, keys) ==
  IF Len(keys) = 0 THEN <<>>
  ELSE IF Head(keys) \in DOMAIN m THEN <<m[Head(keys)]>>
  ELSE FirstKey(m, Tail(keys))

RECURSIVE FirstReacting(_, _)
\* the second loop of react: the first rule of the list that reacts
FirstReacting(list, v) ==
  IF Len(list) = 0 THEN <<>>
  ELSE IF Len(RuleReact(Head(list), v)) > 0 THEN RuleReact(Head(list), v)
  ELSE FirstReacting(Tail(list), v)

\* a react that scans the non-indexed list and never looks into the index map
react_scan_only(gs, name, v) ==
  IF name \notin DOMAIN gs THEN HttpStatus(200)
  ELSE LET scan == FirstReacting(gs[name].list_non_indexed, v)
       IN  IF Len(scan) > 0 THEN scan[1] ELSE HttpStatus(200)

\* a react that forbids where no rule decides
react_forbidding(gs, name, v) ==
  IF name \notin DOMAIN gs THEN HttpStatus(403)
  ELSE LET hit == FirstKey(gs[name].map_indexed, visitor_index_keys(v))
           scan == FirstReacting(gs[name].list_non_indexed, v)
       IN  IF Len(hit) > 0 THEN hit[1]
           ELSE IF Len(scan) > 0 THEN scan[1]
           ELSE HttpStatus(403)

\* SecurityGroupService::react (it never returns Err)
react(gs, name, v) ==
  IF name \notin DOMAIN gs THEN HttpStatus(200)
  ELSE LET hit == FirstKey(gs[name].map_indexed, visitor_index_keys(v))
           scan == FirstReacting(gs[name].list_non_indexed, v)
       IN  IF Len(hit) > 0 THEN hit[1]
           ELSE IF Len(scan) > 0 THEN scan[1]
           ELSE HttpStatus(200)

\* what an operation leaves behind: the groups, the directory, what it returns
Outcome(gs, dir, ret, added, changed) ==
  [groups |-> gs, files |-> dir, ret |-> ret, added |-> added, changed |-> changed]

\* an operation that ends Ok(..) after its change: save() runs, then it returns
Saved(gs, dir, ret, added, changed) == Outcome(gs, save(gs, dir), ret, added, changed)

\* the end of create_rule, lp being what its loop left
CreateEnd(gs, dir, name, build, lp) ==
  IF Len(lp.err) > 0
  THEN Outcome(MapInsert(gs, name, lp.g), dir, RetErr(lp.err[1]), lp.added, FALSE)
  ELSE IF count(lp.g) = 0 /\ build = "debug"
  THEN Outcome(MapInsert(gs, name, lp.g), dir,
               RetPanic("attempt to subtract with overflow"), lp.added, FALSE)
  ELSE Saved(MapInsert(gs, name, lp.g), dir,
             RetOk(WrappingSub1(count(lp.g)), <<>>, ""), lp.added, FALSE)

\* SecurityGroupService::create_rule. build is "debug" (count - 1 of an empty
\* group panics: overflow checks) or "release" (it wraps)
create_rule(gs, dir, name, text, build) ==
  CreateEnd(gs, dir, name, build,
            CreateLoop(IF name \in DOMAIN gs THEN gs[name] ELSE SecurityGroupNew(name),
                       <<>>, Lines(text)))

\* an update that takes an index past the end for the index of the last rule
UpdateMatchClamping(g, ref, parsed, indexes) ==
  IF ref.kind = "All" THEN [err |-> <<"please use index or tag to update rule">>]
  ELSE IF ref.kind = "Index"
  THEN IF count(g) = 0 THEN [err |-> <<"index out of range">>]
       ELSE IF ~parsed.ok THEN [err |-> <<parsed.err>>]
       ELSE [err |-> <<>>, changed |-> TRUE,
             g |-> set_by_index(g, IF ref.index >= count(g) THEN count(g) - 1
                                   ELSE ref.index, parsed.v)]
  ELSE IF Len(indexes) = 0 THEN [err |-> <<>>, g |-> g, changed |-> FALSE]
       ELSE IF ~parsed.ok THEN [err |-> <<parsed.err>>]
       ELSE [err |-> <<>>, g |-> set_many(g, indexes, parsed.v), changed |-> TRUE]

\* the match of update_rule, parsed being Rule::parse(input), which the code
\* evaluates only where it is used, and indexes the rules the tag filter matches:
\* the error, or the group after the change
UpdateMatch(g, ref, parsed, indexes) ==
  IF ref.kind = "All" THEN [err |-> <<"please use index or tag to update rule">>]
  ELSE IF ref.kind = "Index"
  THEN IF ref.index >= count(g) THEN [err |-> <<"index out of range">>]
       ELSE IF ~parsed.ok THEN [err |-> <<parsed.err>>]
       ELSE [err |-> <<>>, g |-> set_by_index(g, ref.index, parsed.v), changed |-> TRUE]
  ELSE IF Len(indexes) = 0 THEN [err |-> <<>>, g |-> g, changed |-> FALSE]
       ELSE IF ~parsed.ok THEN [err |-> <<parsed.err>>]
       ELSE [err |-> <<>>, g |-> set_many(g, indexes, parsed.v), changed |-> TRUE]

\* an end of update_rule and delete_rule that stores the changed group under
\* every name
UpdateEndEveryGroup(gs, dir, name, m) ==
  IF Len(m.err) > 0 THEN Outcome(gs, dir, RetErr(m.err[1]), <<>>, FALSE)
  ELSE Saved([n \in DOMAIN gs |-> m.g], dir, RetOk(0, <<>>, ""), <<>>, m.changed)

UpdateEnd(gs, dir, name, m) ==
  IF Len(m.err) > 0 THEN Outcome(gs, dir, RetErr(m.err[1]), <<>>, FALSE)
  ELSE Saved(MapInsert(gs, name, m.g), dir, RetOk(0, <<>>, ""), <<>>, m.changed)

\* SecurityGroupService::update_rule
\* an update_rule that removes the rule at the index before it parses the text
update_rule_removing_first(gs, dir, name, ref, input) ==
  IF name \notin DOMAIN gs THEN Outcome(gs, dir, RetErr("group not found"), <<>>, FALSE)
  ELSE IF ref.kind = "Index" /\ ref.index < count(gs[name]) /\ ~RuleParse(input).ok
  THEN Outcome(MapInsert(gs, name, remove_by_index(gs[name], ref.index)), dir,
               RetErr(RuleParse(input).err), <<>>, TRUE)
  ELSE UpdateEnd(gs, dir, name,
                 UpdateMatch(gs[name], ref, RuleParse(input),
                             MatchingIndexes(gs[name], ref.tag)))

update_rule(gs, dir, name, ref, input) ==
  IF name \notin DOMAIN gs THEN Outcome(gs, dir, RetErr("group not found"), <<>>, FALSE)
  ELSE UpdateEnd(gs, dir, name,
                 UpdateMatch(gs[name], ref, RuleParse(input),
                             MatchingIndexes(gs[name], ref.tag)))

\* the match of delete_rule
DeleteMatch(g, ref, indexes) ==
  IF ref.kind = "All" THEN [err |-> <<>>, g |-> reset(g), changed |-> TRUE]
  ELSE IF ref.kind = "Index"
  THEN IF ref.index >= count(g) THEN [err |-> <<"index out of range">>]
       ELSE [err |-> <<>>, g |-> remove_by_index(g, ref.index), changed |-> TRUE]
  ELSE IF Len(indexes) = 0 THEN [err |-> <<>>, g |-> g, changed |-> FALSE]
       ELSE [err |-> <<>>, g |-> remove_many(g, indexes), changed |-> TRUE]

\* a delete that refuses a group it does not know
delete_rule_strict(gs, dir, name, ref) ==
  IF name \notin DOMAIN gs THEN Outcome(gs, dir, RetErr("group not found"), <<>>, FALSE)
  ELSE UpdateEnd(gs, dir, name,
                 DeleteMatch(gs[name], ref, MatchingIndexes(gs[name], ref.tag)))

\* SecurityGroupService::delete_rule
delete_rule(gs, dir, name, ref) ==
  IF name \notin DOMAIN gs THEN Outcome(gs, dir, RetOk(0, <<>>, ""), <<>>, FALSE)
  ELSE UpdateEnd(gs, dir, name,
                 DeleteMatch(gs[name], ref, MatchingIndexes(gs[name], ref.tag)))

----------------------------------------------------------------------------
(* The service as a state machine: one action per operation.  The service *)
(* sits behind one mutex (main.rs): an operation starts when no other is in *)
(* progress, and `call` holds the operation and its outcome until the       *)
(* handler returns.                                                         *)

MaxRules == 3

GroupNames == {"default"}

RuleTexts == {"403|ES#b", "401|ES", "401|*#b", "301|127.0.0.1,/a/|/b/#t"}

BadText == "x|US"

CreateTexts == RuleTexts \cup {BadText, "", " 401|*#b \n\nx|US\n401|ES", "401|ES\n403|ES#b"}

UpdateTexts == {"401|ES", "401|*#b", BadText}

TagQueries == {"b", "t,-b"}

TagMaps == {TagMapNew} \cup {TagMapFromQuery(q) : q \in TagQueries}

Refs ==
  {RulesRefAll} \cup {RulesRefIndex(i) : i \in 0..MaxRules} \cup {RulesRefTag(tm) : tm \in TagMaps}

Countries == {<<>>, <<"ES">>}

Visitors ==
  {Visitor(ip, c, <<>>, "/a/") : ip \in {"127.0.0.1", "1.2.3.4"}, c \in Countries}

Builds == {"debug", "release"}

NoVisitor == Visitor("", <<>>, <<>>, "")

EmptyDir == [f \in {} |-> ""]

InitialDirs == {EmptyDir}

EmptyGroups == [n \in {} |-> SecurityGroupNew("")]

Call(op, group, ref, text, visitor, ret, pre) ==
  [op |-> op, group |-> group, ref |-> ref, text |-> text, visitor |-> visitor,
   ret |-> ret, pre |-> pre]

NoCall == Call("none", "", NoRef, "", NoVisitor, RetOk(0, <<>>, ""), EmptyGroups)

\* the rules a file's text loads, in file order
RECURSIVE LoadedRules(_)
LoadedRules(lines) ==
  IF Len(lines) = 0 THEN <<>>
  ELSE LET ln == Trim(Head(lines))
       IN  (IF Len(ln) > 0 /\ ~StartsWith(ln, "#") /\ RuleParse(ln).ok
            THEN <<RuleParse(ln).v>> ELSE <<>>) \o LoadedRules(Tail(lines))

\* order: per group, the rules in the order they were added, as long as the
\* group has only been added to (clean)
OrderAfterAdds(ord, name, added) ==
  [n \in DOMAIN ord \cup {name} |->
     IF n # name THEN ord[n]
     ELSE IF n \notin DOMAIN ord THEN [clean |-> TRUE, rules |-> added]
     ELSE IF ord[n].clean THEN [clean |-> TRUE, rules |-> ord[n].rules \o added]
     ELSE ord[n]]

OrderAfterChange(ord, name, changed) ==
  [n \in DOMAIN ord |->
     IF n = name /\ changed THEN [clean |-> FALSE, rules |-> <<>>] ELSE ord[n]]

OrderLoaded(dir, gs) ==
  [n \in DOMAIN gs |->
     [clean |-> TRUE,
      rules |-> LoadedRules(Lines(dir[CHOOSE f \in DOMAIN dir : RemoveAll(f, Suffix) = n]))]]

IdleFn == fin = <<>> /\ fout = <<>>
IdleLock == pc = <<>> /\ req = <<>> /\ mutex = "" /\ obs = <<>>

\* the service after from_local_path on one of the directories
InitService(dirs) ==
  /\ files \in dirs
  /\ denied = {}
  /\ groups = from_local_path(files)
  /\ order = OrderLoaded(files, groups)
  /\ call = NoCall

Init == InitService(InitialDirs) /\ IdleFn /\ IdleLock

\* state.lock(): no operation is in progress
Free == call.op = "none"

RECURSIVE NonBlank(_)
\* the lines create_rule looks at: trimmed, the blank ones left out
NonBlank(lines) ==
  IF Len(lines) = 0 THEN <<>>
  ELSE (IF Len(Trim(Head(lines))) > 0 THEN <<Trim(Head(lines))>> ELSE <<>>)
       \o NonBlank(Tail(lines))

\* the group stays within MaxRules rules
Fits(name, text) ==
  (IF name \in DOMAIN groups THEN count(groups[name]) ELSE 0)
    + Len(NonBlank(Lines(text))) <= MaxRules

\* a save() that gives up the operation when a file cannot be written
AfterSaveFailing(res, dir, deny) ==
  [res EXCEPT !.files = Written(dir, res.files, deny),
              !.ret = IF res.ret.kind = "Ok" /\ res.files # Written(dir, res.files, deny)
                      THEN RetErr("permission denied") ELSE @]

\* the outcome res of an operation on storage where the paths in deny cannot
\* be written: save() logs the Err of save_to_file and goes on, the groups
\* and the value returned are those of res
AfterSave(res, dir, deny) == [res EXCEPT !.files = Written(dir, res.files, deny)]

\* the state after an operation with outcome res
Lands(op, name, ref, text, res) ==
  /\ groups' = res.groups
  /\ files' = res.files
  /\ denied' = denied
  /\ order' = IF name \notin DOMAIN res.groups THEN order
               ELSE OrderAfterChange(OrderAfterAdds(order, name, res.added), name,
                                     res.changed)
  /\ call' = Call(op, name, ref, text, NoVisitor, res.ret, groups)

Becomes(op, name, ref, text, res) ==
  Lands(op, name, ref, text, AfterSave(res, files, denied))

CreateRuleOf(names, texts) ==
  \E name \in names, text \in texts, build \in Builds :
    /\ Free
    /\ Fits(name, text)
    /\ Becomes("create_rule", name, NoRef, text,
               create_rule(groups, files, name, text, build))
    /\ UNCHANGED <<fnVars, lockVars>>

UpdateRuleOf(names, refs, texts) ==
  \E name \in names, ref \in refs, text \in texts :
    /\ Free
    /\ Becomes("update_rule", name, ref, text,
               update_rule(groups, files, name, ref, text))
    /\ UNCHANGED <<fnVars, lockVars>>

DeleteRuleOf(names, refs) ==
  \E name \in names, ref \in refs :
    /\ Free
    /\ Becomes("delete_rule", name, ref, "", delete_rule(groups, files, name, ref))
    /\ UNCHANGED <<fnVars, lockVars>>

ReactOf(names, visitors) ==
  \E name \in names, v \in visitors :
    /\ Free
    /\ call' = Call("react", name, NoRef, "", v,
                    RetOk(0, <<react(groups, name, v)>>, ""), groups)
    /\ UNCHANGED <<groups, files, denied, order, fnVars, lockVars>>

ListRulesOf(names, tms) ==
  \E name \in names, tm \in tms :
    /\ Free
    /\ call' = Call("list_rules_as_str", name, RulesRefTag(tm), "", NoVisitor,
                    RetOk(0, <<>>, list_rules_as_str(groups, name, tm)), groups)
    /\ UNCHANGED <<groups, files, denied, order, fnVars, lockVars>>

CreateRule == CreateRuleOf(GroupNames, CreateTexts)
UpdateRule == UpdateRuleOf(GroupNames, Refs, UpdateTexts)
DeleteRule == DeleteRuleOf(GroupNames, Refs)
React == ReactOf(GroupNames, Visitors)
ListRules == ListRulesOf(GroupNames, TagMaps)

\* the handler returns its response and the guard is dropped; a handler that
\* panicked never returns, and the poisoned mutex admits no operation after it
Return ==
  /\ call.op # "none"
  /\ call.ret.kind # "Panic"
  /\ call' = NoCall
  /\ UNCHANGED <<groups, files, denied, order, fnVars, lockVars>>

Next == CreateRule \/ UpdateRule \/ DeleteRule \/ React \/ ListRules \/ Return

Spec == Init /\ [][Next]_vars

----------------------------------------------------------------------------
(* Properties of the service (specification Spec) *)

\* the group an operation was called on, before and after it
Pre == call.pre[call.group]
Post == groups[call.group]

OnGroup(op) == call.op = op /\ call.group \in DOMAIN call.pre

RECURSIVE NotMatching(_, _)
\* the rules of a list whose tags do not satisfy the filter, in order
NotMatching(list, tm) ==
  IF Len(list) = 0 THEN <<>>
  ELSE (IF TagMapMatches(tm, Head(list).tags) THEN <<>> ELSE <<Head(list)>>)
       \o NotMatching(Tail(list), tm)

\* the list without its element at 0-based position k
WithoutAt(list, k) == SubSeq(list, 1, k) \o SubSeq(list, k + 2, Len(list))

\* what a linear scan of the rules in insertion order decides, 200 by default
NaiveScan(rules, v) ==
  IF \E i \in 1..Len(rules) : Len(RuleReact(rules[i], v)) > 0
  THEN LET first == CHOOSE i \in 1..Len(rules) :
                      /\ Len(RuleReact(rules[i], v)) > 0
                      /\ \A j \in 1..(i - 1) : Len(RuleReact(rules[j], v)) = 0
       IN  rules[first].reaction
  ELSE HttpStatus(200)

\* C1: for every sequence of rules added to a group and every visitor, the
\* group's react (index map first, then the non-indexed list) decides what a
\* linear scan of all the rules in insertion order decides.
C1_IndexingEquivalence ==
  (call.op = "react" /\ call.group \in DOMAIN order /\ order[call.group].clean)
    => call.ret.reaction = <<NaiveScan(order[call.group].rules, call.visitor)>>

\* C2: after any sequence of add, remove and set operations, every rule of the
\* indexed list has at least one of its index keys in the index map.
C2_IndexedRuleHasKeyInMap ==
  \A n \in DOMAIN groups :
    \A i \in 1..Len(groups[n].list_indexed) :
      \E k \in 1..Len(index_keys(groups[n].list_indexed[i])) :
        index_keys(groups[n].list_indexed[i])[k] \in DOMAIN groups[n].map_indexed

\* C7: after delete_rule by tag, each list is the previous list without exactly
\* the rules whose tags satisfy the filter: the others stay, in their list and
\* in their order, none duplicated or moved.
C7_DeleteByTagRemovesExactlyMatching ==
  (OnGroup("delete_rule") /\ call.ref.kind = "Tag")
    => /\ Post.list_indexed = NotMatching(Pre.list_indexed, call.ref.tag)
       /\ Post.list_non_indexed = NotMatching(Pre.list_non_indexed, call.ref.tag)

\* C8: update_rule by tag with m >= 1 matching rules removes those m rules and
\* adds the parsed rule once (count - m + 1, the others retained); with no match
\* the group is unchanged and the call succeeds.
C8_UpdateByTagCollapses ==
  (OnGroup("update_rule") /\ call.ref.kind = "Tag")
    => LET m == Len(MatchingIndexes(Pre, call.ref.tag))
           kept == NotMatching(AllRules(Pre), call.ref.tag)
       IN  IF m = 0 THEN call.ret.kind = "Ok" /\ groups = call.pre
           ELSE call.ret.kind = "Ok" =>
                  /\ count(Post) = count(Pre) - m + 1
                  /\ \A i \in 1..Len(kept) :
                       \E j \in 1..count(Post) : AllRules(Post)[j] = kept[i]

UpdatedByIndex == OnGroup("update_rule") /\ call.ref.kind = "Index" /\ call.ret.kind = "Ok"

\* C9 as claimed: after update_rule by index i, the rule at combined index i is
\* the parsed rule, the count is unchanged and every other rule keeps its index.
C9_UpdateByIndexInPlace ==
  UpdatedByIndex
    => /\ count(Post) = count(Pre)
       /\ \A j \in 1..count(Pre) :
            AllRules(Post)[j] = IF j = call.ref.index + 1 THEN RuleParse(call.text).v
                                ELSE AllRules(Pre)[j]

\* C9 as the code has it: after update_rule by index i the rule that was at
\* combined index i is gone, the parsed rule is the last rule of the list its
\* index keys select, the count is unchanged, and every other rule keeps its
\* list and its order.
C9_UpdateByIndexAppends ==
  UpdatedByIndex
    => LET i == call.ref.index
           n == Len(Pre.list_indexed)
           r == RuleParse(call.text).v
           keyed == Len(index_keys(r)) > 0
       IN  /\ count(Post) = count(Pre)
           /\ Post.list_indexed =
                (IF i < n THEN WithoutAt(Pre.list_indexed, i) ELSE Pre.list_indexed)
                \o (IF keyed THEN <<r>> ELSE <<>>)
           /\ Post.list_non_indexed =
                (IF i < n THEN Pre.list_non_indexed
                 ELSE WithoutAt(Pre.list_non_indexed, i - n))
                \o (IF keyed THEN <<>> ELSE <<r>>)

\* an update by index that moved rules: an indexed rule, not the last one, was
\* replaced by a rule without index keys
C9_Witness ==
  /\ UpdatedByIndex
  /\ count(Pre) >= 2
  /\ call.ref.index < Len(Pre.list_indexed)
  /\ call.ref.index + 1 < count(Pre)
  /\ Len(index_keys(RuleParse(call.text).v)) = 0

\* C10: when create_rule succeeds, the rule at the combined index it returns is
\* the rule parsed from the last non-blank line of the text.
C10_CreateReturnsIndexOfLastRule ==
  (call.op = "create_rule" /\ call.ret.kind = "Ok" /\ Len(NonBlank(Lines(call.text))) > 0)
    => LET lines == NonBlank(Lines(call.text))
       IN  /\ call.ret.index \in 0..(count(Post) - 1)
           /\ AllRules(Post)[call.ret.index + 1] = RuleParse(lines[Len(lines)]).v

\* the group the call found, or the empty one create_rule makes for a new name
PreOrNew == IF call.group \in DOMAIN call.pre THEN Pre ELSE SecurityGroupNew(call.group)

\* the positions of the non-blank lines that do not parse
FailingLines(lines) == {i \in 1..Len(lines) : ~RuleParse(lines[i]).ok}

FirstFailing(lines) ==
  CHOOSE i \in FailingLines(lines) : \A j \in FailingLines(lines) : i <= j

RECURSIVE AddedInOrder(_, _, _)
\* the group after the rules of lines[1..k] were added one after another
AddedInOrder(g, lines, k) ==
  IF k = 0 THEN g
  ELSE add(AddedInOrder(g, lines, k - 1), RuleParse(lines[k]).v)

\* C11: create_rule fails only when a line fails to parse; then the group
\* holds the rules it had and the rules of the lines before the first failing
\* line, and no rule of a later line.
C11_CreateFailsOnlyAtFirstBadLine ==
  call.op = "create_rule"
    => LET lines == NonBlank(Lines(call.text))
       IN  /\ (call.ret.kind # "Ok") <=> (FailingLines(lines) # {})
           /\ FailingLines(lines) # {}
                => /\ call.ret.kind = "Err"
                   /\ Post = AddedInOrder(PreOrNew, lines, FirstFailing(lines) - 1)

\* the part of C11 about a failing line alone: the call returns the error of
\* the first line that does not parse and keeps the rules of the lines before
C11_StopsAtFirstBadLine ==
  (call.op = "create_rule" /\ FailingLines(NonBlank(Lines(call.text))) # {})
    => LET lines == NonBlank(Lines(call.text))
       IN  /\ call.ret.kind = "Err"
           /\ Post = AddedInOrder(PreOrNew, lines, FirstFailing(lines) - 1)

\* a create, update or delete has returned to its caller, with Ok or with Err
MutationReturned ==
  /\ call.op \in {"create_rule", "update_rule", "delete_rule"}
  /\ call.ret.kind \in {"Ok", "Err"}

\* the file of group n holds the lines of its rules; a group without a file
\* holds no rule
Persisted(n) ==
  IF FileName(n) \in DOMAIN files THEN files[FileName(n)] = to_writer(groups[n])
  ELSE count(groups[n]) = 0

\* C12: whenever a create, update or delete has returned, with success or with
\* an error, the files hold exactly the rules of the groups in memory.
C12_PersistedAfterEveryReturn ==
  MutationReturned => \A n \in DOMAIN groups : Persisted(n)

\* the same for the calls that returned Ok: each of them ran save()
C12_PersistedAfterOk ==
  (MutationReturned /\ call.ret.kind = "Ok") => \A n \in DOMAIN groups : Persisted(n)

\* the index keys of a rule, as a set
KeySet(r) == {index_keys(r)[k] : k \in 1..Len(index_keys(r))}

\* the positions of the rules of a list that have k among their index keys
AddedWithKey(rules, k) == {i \in 1..Len(rules) : k \in KeySet(rules[i])}

Greatest(S) == CHOOSE i \in S : \A j \in S : j <= i

\* C16: in a group that has seen only adds, the index map holds exactly the
\* index keys of the rules added, and the value of a key is the reaction of
\* the rule added last among those that have the key.
C16_MapHoldsLastAddedRule ==
  \A n \in DOMAIN groups :
    (n \in DOMAIN order /\ order[n].clean)
      => LET rules == order[n].rules
         IN  /\ DOMAIN groups[n].map_indexed = UNION {KeySet(rules[i]) : i \in 1..Len(rules)}
             /\ \A k \in DOMAIN groups[n].map_indexed :
                  groups[n].map_indexed[k] = rules[Greatest(AddedWithKey(rules, k))].reaction

\* two rules with a common key and different reactions were added, and the
\* map holds the reaction of the second
C16_Witness ==
  \E n \in DOMAIN groups :
    /\ n \in DOMAIN order
    /\ order[n].clean
    /\ \E k \in DOMAIN groups[n].map_indexed :
         \E i, j \in AddedWithKey(order[n].rules, k) :
           /\ i < j
           /\ order[n].rules[i].reaction # order[n].rules[j].reaction
           /\ groups[n].map_indexed[k] = order[n].rules[j].reaction

\* a delete_rule of every rule of a group that exists
DeletedAll == OnGroup("delete_rule") /\ call.ref.kind = "All"

\* C20: after delete_rule(group, All) on a group that exists, the two lists
\* and the index map are empty, count() is 0, and react on the group
\* returns HttpStatus(200) for every visitor.
C20_DeleteAllEmptiesGroup ==
  DeletedAll
    => /\ call.ret.kind = "Ok"
       /\ Post.list_indexed = <<>>
       /\ Post.list_non_indexed = <<>>
       /\ DOMAIN Post.map_indexed = {}
       /\ count(Post) = 0
       /\ \A v \in Visitors : react(groups, call.group, v) = HttpStatus(200)

\* the group held indexed and non-indexed rules and keys before the delete
C20_Witness ==
  /\ DeletedAll
  /\ Len(Pre.list_indexed) > 0
  /\ Len(Pre.list_non_indexed) > 0
  /\ DOMAIN Pre.map_indexed # {}
  /\ \E v \in Visitors : react(call.pre, call.group, v) # HttpStatus(200)
  /\ count(Post) = 0

\* a delete_rule by an index below count has returned
DeletedByIndex ==
  /\ OnGroup("delete_rule")
  /\ call.ref.kind = "Index"
  /\ call.ref.index < count(Pre)

\* the map without the keys in K
MapWithout(m, K) == [k \in DOMAIN m \ K |-> m[k]]

\* C28: delete_rule by an index below count removes the rule at that combined
\* index and no other: in the indexed range the indexed list loses that rule
\* and the map loses the rule's index keys, the non-indexed list stays; in the
\* non-indexed range the non-indexed list loses that rule, the map and the
\* indexed list stay.
C28_DeleteByIndexRemovesOneRule ==
  DeletedByIndex
    => LET i == call.ref.index
           n == Len(Pre.list_indexed)
       IN  /\ call.ret.kind = "Ok"
           /\ count(Post) = count(Pre) - 1
           /\ IF i < n
              THEN /\ Post.list_indexed = WithoutAt(Pre.list_indexed, i)
                   /\ Post.list_non_indexed = Pre.list_non_indexed
                   /\ Post.map_indexed =
                        MapWithout(Pre.map_indexed, KeySet(Pre.list_indexed[i + 1]))
              ELSE /\ Post.list_non_indexed = WithoutAt(Pre.list_non_indexed, i - n)
                   /\ Post.list_indexed = Pre.list_indexed
                   /\ Post.map_indexed = Pre.map_indexed

\* the first of two indexed rules was deleted from a group that also holds a
\* non-indexed rule
C28_Witness ==
  /\ DeletedByIndex
  /\ call.ref.index = 0
  /\ Len(Pre.list_indexed) = 2
  /\ Len(Pre.list_non_indexed) = 1
  /\ Post.list_indexed = <<Pre.list_indexed[2]>>
  /\ Post.list_non_indexed = Pre.list_non_indexed

\* C32: after any sequence of operations the two lists of every group divide
\* its rules by their index keys: every rule of the indexed list has at least
\* one index key, and every rule of the non-indexed list has none (so that no
\* rule stands in both lists).
C32_ListsPartitionByIndexability ==
  \A n \in DOMAIN groups :
    /\ \A i \in 1..Len(groups[n].list_indexed) :
         Len(index_keys(groups[n].list_indexed[i])) > 0
    /\ \A i \in 1..Len(groups[n].list_non_indexed) :
         Len(index_keys(groups[n].list_non_indexed[i])) = 0

\* the half of C32 that the code keeps: no rule without an index key is ever
\* in the indexed list
C32_IndexedListHoldsKeyedRules ==
  \A n \in DOMAIN groups :
    \A i \in 1..Len(groups[n].list_indexed) :
      Len(index_keys(groups[n].list_indexed[i])) > 0

\* group n as loaded from the file that a save of its present state writes
Reloaded(n) == from_reader(n, to_writer(groups[n]))

\* the reloaded group holds the rules of the group in memory: the same count
\* and the same listing
SameRulesReloaded(n, g) ==
  /\ count(g) = count(groups[n])
  /\ list_rules_as_str([m \in {n} |-> g], n, TagMapNew) = list_rules_as_str(groups, n, TagMapNew)

\* the reloaded group reacts to every visitor as the group in memory
SameReactionsReloaded(n, g) ==
  \A v \in Visitors : react([m \in {n} |-> g], n, v) = react(groups, n, v)

\* C34: for every group state reached by management operations, saving the
\* group and loading the written file gives a group with the same rules (same
\* count, same listing) that returns the same reaction for every visitor.
C34_RestartIsLossless ==
  \A n \in DOMAIN groups :
    SameRulesReloaded(n, Reloaded(n)) /\ SameReactionsReloaded(n, Reloaded(n))

\* the part of C34 that the code keeps: count and listing survive a restart
C34_RestartKeepsRules ==
  \A n \in DOMAIN groups : SameRulesReloaded(n, Reloaded(n))

\* update_rule has returned for a known group and a text that does not parse
UpdatedWithBadText ==
  /\ OnGroup("update_rule")
  /\ ~RuleParse(call.text).ok

\* the reference of the call selects at least one rule of the group: an index
\* below count, or a tag filter that a rule's tags satisfy
SelectsRules ==
  \/ call.ref.kind = "Index" /\ call.ref.index < count(Pre)
  \/ call.ref.kind = "Tag" /\ Len(MatchingIndexes(Pre, call.ref.tag)) > 0

\* C35 as stated: update_rule by index or by tag with a text that fails to
\* parse returns the grammar error and leaves the group unchanged.
C35_BadTextReturnsGrammarError ==
  (UpdatedWithBadText /\ call.ref.kind \in {"Index", "Tag"})
    => /\ call.ret = RetErr(RuleParse(call.text).err)
       /\ groups = call.pre

\* C35 as the code has it: update_rule with a text that fails to parse leaves
\* every group unchanged; it returns the grammar error when the reference
\* selects a rule, the range error for an index at or past count, and
\* success, without parsing, for a tag filter that selects no rule.
C35_BadTextChangesNothing ==
  UpdatedWithBadText
    => /\ groups = call.pre
       /\ SelectsRules => call.ret = RetErr(RuleParse(call.text).err)
       /\ (call.ref.kind = "Index" /\ ~SelectsRules) => call.ret = RetErr("index out of range")
       /\ (call.ref.kind = "Tag" /\ ~SelectsRules) => call.ret.kind = "Ok"

\* an update by a tag filter that selects one of two rules has been refused
\* for its text
C35_Witness ==
  /\ UpdatedWithBadText
  /\ call.ref.kind = "Tag"
  /\ Len(MatchingIndexes(Pre, call.ref.tag)) = 1
  /\ count(Pre) = 2
  /\ call.ret.kind = "Err"

\* C36: create_rule never fails on the subtraction count - 1, and whenever it
\* returns success the index it returns is a combined index of the group:
\* 0 <= index < count, also for a text without a non-blank line and a group
\* that is new or empty.
C36_CreatedIndexInRange ==
  call.op = "create_rule"
    => /\ call.ret.kind # "Panic"
       /\ call.ret.kind = "Ok" => call.ret.index \in 0..(count(Post) - 1)

\* the part of C36 that the code keeps: the index is in range whenever the
\* group holds a rule after the call
C36_CreatedIndexInRangeOfNonEmpty ==
  (call.op = "create_rule" /\ call.ret.kind = "Ok" /\ count(Post) > 0)
    => call.ret.index \in 0..(count(Post) - 1)

----------------------------------------------------------------------------
(* Rule::react on its own: specification SpecReact draws a rule text and a
   visitor, and its one action parses the text and applies the rule *)

MaxAccess == 3

AccessTokens == {"*", "-*", "US", "-US", "GB", "-GB", "ES", "1.2.3.4", "-1.2.0.0/16"}

RECURSIVE TokenLists(_)
\* the non-empty lists of at most n access tokens
TokenLists(n) ==
  IF n = 0 THEN {}
  ELSE {<<t>> : t \in AccessTokens}
       \cup TokenLists(n - 1)
       \cup {Append(l, t) : l \in {k \in TokenLists(n - 1) : Len(k) = n - 1}, t \in AccessTokens}

ReactTexts ==
  {Join(l, ",") \o suf : l \in TokenLists(MaxAccess), suf \in {"", ",/a"}}

ReactVisitors ==
  {Visitor(ip, c, <<>>, "/a") : ip \in {"1.2.3.4", "9.9.9.9"}, c \in {<<>>, <<"US">>, <<"GB">>}}
  \cup {Visitor("1.2.3.4", <<"US">>, <<>>, "/b")}

IdleService ==
  /\ groups = EmptyGroups
  /\ files = EmptyDir
  /\ denied = {}
  /\ order = OrderLoaded(EmptyDir, EmptyGroups)
  /\ call = NoCall

InitReact ==
  /\ fin \in {[text |-> t, visitor |-> v] : t \in ReactTexts, v \in ReactVisitors}
  /\ fout = <<>>
  /\ IdleService
  /\ IdleLock

\* Rule::parse(text) then Rule::react(visitor)
ApplyRuleReact ==
  /\ fout = <<>>
  /\ RuleParse(fin.text).ok
  /\ fout' = <<RuleReact(RuleParse(fin.text).v, fin.visitor)>>
  /\ UNCHANGED <<fin, svcVars, lockVars>>

NextReact == ApplyRuleReact

SpecReact == InitReact /\ [][NextReact]_vars

\* the visitor is what the source names
SourceSatisfied(src, v) ==
  \/ src.t = "Any"
  \/ src.t = "FromIpv4" /\ v.ip = src.v
  \/ src.t = "FromIpv4Network" /\ NetContains(src.v, v.ip)
  \/ src.t = "FromCountry" /\ v.country = <<src.v>>
  \/ src.t = "FromCity" /\ v.city = <<src.v>>

\* the positions of the access entries the visitor satisfies; Excluding(Any)
\* is never satisfied
SatisfiedEntries(r, v) ==
  {i \in 1..Len(r.access) :
     /\ ~(r.access[i].k = "Excluding" /\ r.access[i].s.t = "Any")
     /\ SourceSatisfied(r.access[i].s, v)}

LastOf(S) == CHOOSE i \in S : \A j \in S : j <= i

\* C5: when the rule's target matches the visitor, the last access entry the
\* visitor satisfies decides: the reaction if it is From, nothing if it is
\* Excluding or if no entry is satisfied (Excluding(Any) is never satisfied);
\* "GB,-US,ES" does not apply to a US visitor and "US,-GB" does.
C5_LastSatisfiedEntryDecides ==
  (Len(fout) = 1 /\ match_target(RuleParse(fin.text).v, fin.visitor))
    => LET r == RuleParse(fin.text).v
           S == SatisfiedEntries(r, fin.visitor)
       IN  /\ fout[1] = IF S = {} THEN <<>>
                        ELSE IF r.access[LastOf(S)].k = "From" THEN <<r.reaction>>
                        ELSE <<>>
           /\ (fin.text = "GB,-US,ES" /\ fin.visitor.country = <<"US">>) => fout[1] = <<>>
           /\ (fin.text = "US,-GB" /\ fin.visitor.country = <<"US">>)
                => fout[1] = <<HttpStatus(200)>>

\* the rule "GB,-US,ES" was applied to a visitor from the US, whose last
\* satisfied entry is the Excluding one
C5_Witness ==
  /\ Len(fout) = 1
  /\ fin.text = "GB,-US,ES"
  /\ fin.visitor.country = <<"US">>
  /\ fin.visitor.uri = "/a"
  /\ SatisfiedEntries(RuleParse(fin.text).v, fin.visitor) = {2}

----------------------------------------------------------------------------
(* The end-to-end scenario: specification SpecScenario loads the group
   "default" from its file and reacts on visitors *)

ScenarioDir ==
  [f \in {FileName("default")} |-> "401|-JP\n403|ES\n301|127.0.0.1,/a/|/b/\n"]

ScenarioVisitors ==
  {Visitor(ip, c, city, uri) :
     ip \in {"127.0.0.1", "1.2.3.4", "10.0.0.1"},
     c \in {<<>>, <<"JP">>, <<"ES">>, <<"US">>},
     city \in {<<>>, <<"Tokyo">>},
     uri \in {"/a/", "/a", "/a//", "/b/", "/"}}

InitScenario == InitService({ScenarioDir}) /\ IdleFn /\ IdleLock

ReactScenario == ReactOf({"default"}, ScenarioVisitors)

NextScenario == ReactScenario \/ Return

SpecScenario == InitScenario /\ [][NextScenario]_vars

Reacted == call.op = "react" /\ call.group = "default"

\* C6 as claimed: JP gets 401, ES gets 403, IP 127.0.0.1 on /a/ gets a 301
\* redirect to /b/, any other visitor gets 200.
C6_ScenarioAsClaimed ==
  Reacted
    => call.ret.reaction =
         <<IF call.visitor.country = <<"JP">> THEN HttpStatus(401)
           ELSE IF call.visitor.country = <<"ES">> THEN HttpStatus(403)
           ELSE IF call.visitor.ip = "127.0.0.1" /\ call.visitor.uri = "/a/"
                THEN PermanentRedirect("/b/")
           ELSE HttpStatus(200)>>

\* C6 as the code has it: ES gets 403; otherwise IP 127.0.0.1 on /a/ (or
\* /a//) gets a 301 redirect to /b/; every other visitor, those from JP
\* included, gets 200.
C6_Scenario ==
  Reacted
    => call.ret.reaction =
         <<IF call.visitor.country = <<"ES">> THEN HttpStatus(403)
           ELSE IF call.visitor.ip = "127.0.0.1" /\ call.visitor.uri \in {"/a/", "/a//"}
                THEN PermanentRedirect("/b/")
           ELSE HttpStatus(200)>>

\* a visitor from JP, not from 127.0.0.1, got 200 from the loaded group
C6_Witness ==
  /\ Reacted
  /\ Len(groups["default"].list_non_indexed) = 2
  /\ call.visitor.country = <<"JP">>
  /\ call.visitor.ip = "1.2.3.4"
  /\ call.ret.reaction = <<HttpStatus(200)>>

----------------------------------------------------------------------------
(* Rule::to_string and Rule::parse as functions: specification SpecRoundTrip
   draws a rule text, or a rule built field by field, serializes the rule and
   parses the line again *)

MaxParts == 2

BodyTokens ==
  {"", "*", "-*", "US", "-US", "1.2.3.4", "-1.2.0.0/16", "London", "-", "/a", "^/p"}

RECURSIVE ListsOver(_, _)
\* the non-empty lists of at most n elements of S
ListsOver(S, n) ==
  IF n = 0 THEN {}
  ELSE {<<x>> : x \in S}
       \cup ListsOver(S, n - 1)
       \cup {Append(l, x) : l \in {k \in ListsOver(S, n - 1) : Len(k) = n - 1}, x \in S}

RoundTripTexts ==
  {pre \o Join(l, ",") \o loc \o tg :
     pre \in {"", "200|", "301|", "403|", "x|"},
     l \in ListsOver(BodyTokens, MaxParts),
     loc \in {"", "|/b/"},
     tg \in {"", "#", "#a,b"}}

\* rules built directly from their public fields
BuiltRules ==
  {Rule(a, t, re, tg) :
     a \in ListsOver({From(SourceAny), From(FromCountry("US")), From(FromCity("US")),
                      Excluding(FromCountry("US"))}, MaxParts),
     t \in ListsOver({TargetAny, Path("/a"), PathPrefix("/p")}, MaxParts),
     re \in {HttpStatus(200), HttpStatus(403), PermanentRedirect("/b/")},
     tg \in {<<>>, <<"a", "b">>}}

NoRule == Rule(<<>>, <<>>, HttpStatus(0), <<>>)

InitRoundTrip ==
  /\ fin \in {[kind |-> "text", text |-> t, rule |-> NoRule] : t \in RoundTripTexts}
         \cup {[kind |-> "rule", text |-> "", rule |-> r] : r \in BuiltRules}
  /\ fout = <<>>
  /\ IdleService
  /\ IdleLock

\* Rule::parse of the text
ParseText ==
  /\ fin.kind = "text"
  /\ fout = <<>>
  /\ fout' = <<RuleParse(fin.text)>>
  /\ UNCHANGED <<fin, svcVars, lockVars>>

\* the rule is built as a struct literal
BuildRule ==
  /\ fin.kind = "rule"
  /\ fout = <<>>
  /\ fout' = <<Ok(fin.rule)>>
  /\ UNCHANGED <<fin, svcVars, lockVars>>

\* Rule::to_string of the rule, then Rule::parse of the line
SerializeAndParse ==
  /\ Len(fout) = 1
  /\ fout[1].ok
  /\ fout' = Append(fout, RuleParse(RuleToString(fout[1].v)))
  /\ UNCHANGED <<fin, svcVars, lockVars>>

NextRoundTrip == ParseText \/ BuildRule \/ SerializeAndParse

SpecRoundTrip == InitRoundTrip /\ [][NextRoundTrip]_vars

\* C4 as claimed: for every rule with non-empty access and target lists,
\* parse(serialize(r)) succeeds and equals r.
C4_RoundTripOfEveryRule ==
  Len(fout) = 2 => fout[2].ok /\ fout[2].v = fout[1].v

\* C4 as the code has it: for every rule r that parse returns,
\* parse(serialize(r)) succeeds and equals r.
C4_RoundTripOfParsedRule ==
  (Len(fout) = 2 /\ fin.kind = "text") => fout[2].ok /\ fout[2].v = fout[1].v

\* a parsed redirect rule with an Excluding entry, a path and two tags went
\* through serialize and parse
C4_Witness ==
  /\ Len(fout) = 2
  /\ fin.kind = "text"
  /\ fin.text = "301|-US,/a|/b/#a,b"
  /\ fout[1].v.access = <<Excluding(FromCountry("US"))>>
  /\ fout[1].v.reaction = PermanentRedirect("/b/")
  /\ Len(fout[1].v.tags) = 2

----------------------------------------------------------------------------
(* The handlers as concurrent tasks: specification SpecLock.  Every handler
   takes the one Mutex<AppState> first and keeps the guard until it returns;
   the steps of the operation it runs are separate actions, so that a task
   could see another one half-way if the mutex let it in. *)

Procs == {"guard1", "guard2", "create", "update", "delete"}

LockDir == [f \in {FileName("default")} |-> "403|ES#b\n401|*#t\n"]

Req(op, group, text, tag, visitor, build) ==
  [op |-> op, group |-> group, text |-> text, tag |-> tag, visitor |-> visitor,
   build |-> build]

GuardRequest(c) == Req("react", "default", "", TagMapNew, Visitor("1.2.3.4", c, <<>>, "/"), "")

CreateRequests ==
  {Req("create", "default", "403|ES#b", TagMapNew, NoVisitor, b) : b \in Builds}
  \cup {Req("create", "other", "", TagMapNew, NoVisitor, b) : b \in Builds}

UpdateRequests ==
  {Req("update", "default", t, TagMapFromQuery("b"), NoVisitor, "") : t \in {"401|ES#b", BadText}}

DeleteRequests ==
  {Req("delete", "default", "", TagMapFromQuery(q), NoVisitor, "") : q \in {"b", "t"}}

LockRequests ==
  {[p \in Procs |-> CASE p = "guard1" -> GuardRequest(<<"ES">>)
                      [] p = "guard2" -> GuardRequest(<<>>)
                      [] p = "create" -> c
                      [] p = "update" -> u
                      [] OTHER -> d] :
     c \in CreateRequests, u \in UpdateRequests, d \in DeleteRequests}

InitLock ==
  /\ InitService({LockDir})
  /\ IdleFn
  /\ req \in LockRequests
  /\ pc = [p \in Procs |-> "start"]
  /\ mutex = ""
  /\ obs = [p \in Procs |-> <<>>]

At(p, where) == pc[p] = where
Goto(p, where) == pc' = [pc EXCEPT ![p] = where]

\* the task's access to the service is noted with the holder of the mutex and
\* with whether another task stands between the two halves of an update
Noted(p, kind, got) ==
  obs' = [obs EXCEPT ![p] =
            Append(@, [kind |-> kind, holder |-> mutex, got |-> got,
                       mid |-> \E q \in Procs \ {p} : pc[q] = "removed"])]

\* a lock that lets every task in
lock_unguarded(m, p) == TRUE

\* Mutex::lock returns when no task holds the mutex
lock(m, p) == m = ""

\* state.lock().unwrap()
Lock(p) ==
  /\ At(p, "start")
  /\ lock(mutex, p)
  /\ mutex' = p
  /\ Goto(p, "locked")
  /\ UNCHANGED <<svcVars, fnVars, req, obs>>

\* state.lock().unwrap() on a poisoned mutex panics
LockPoisoned(p) ==
  /\ At(p, "start")
  /\ mutex = "poisoned"
  /\ Goto(p, "panicked")
  /\ UNCHANGED <<svcVars, fnVars, req, mutex, obs>>

\* handle_visitor: state.svc.react
GuardRead(p) ==
  /\ At(p, "locked")
  /\ req[p].op = "react"
  /\ Noted(p, "read", <<react(groups, req[p].group, req[p].visitor)>>)
  /\ Goto(p, "finished")
  /\ UNCHANGED <<svcVars, fnVars, req, mutex>>

CreateAddTo(p, lp) ==
  /\ groups' = MapInsert(groups, req[p].group, lp.g)
  /\ Goto(p, IF Len(lp.err) > 0 THEN "finished" ELSE "added")

\* create_rule: the group is got or created and the lines are added
CreateAdd(p) ==
  /\ At(p, "locked")
  /\ req[p].op = "create"
  /\ CreateAddTo(p, CreateLoop(IF req[p].group \in DOMAIN groups THEN groups[req[p].group]
                               ELSE SecurityGroupNew(req[p].group),
                               <<>>, Lines(req[p].text)))
  /\ Noted(p, "write", <<>>)
  /\ UNCHANGED <<files, denied, call, order, fnVars, req, mutex>>

\* create_rule: count() - 1; the panic of a debug build poisons the mutex
CreateIndex(p) ==
  /\ At(p, "added")
  /\ IF count(groups[req[p].group]) = 0 /\ req[p].build = "debug"
     THEN Goto(p, "panicked") /\ mutex' = "poisoned"
     ELSE Goto(p, "changed") /\ UNCHANGED mutex
  /\ UNCHANGED <<svcVars, fnVars, req, obs>>

UpdateRemoveTo(p, parsed, indexes) ==
  IF Len(indexes) = 0 THEN Goto(p, "changed") /\ UNCHANGED <<groups, obs>>
  ELSE IF ~parsed.ok THEN Goto(p, "finished") /\ UNCHANGED <<groups, obs>>
  ELSE /\ groups' = [groups EXCEPT ![req[p].group] = remove_many(@, indexes)]
       /\ Goto(p, "removed")
       /\ Noted(p, "write", <<>>)

\* update_rule by tag up to the first half of set_many: remove_many
UpdateRemove(p) ==
  /\ At(p, "locked")
  /\ req[p].op = "update"
  /\ IF req[p].group \notin DOMAIN groups
     THEN Goto(p, "finished") /\ UNCHANGED <<groups, obs>>
     ELSE UpdateRemoveTo(p, RuleParse(req[p].text),
                         MatchingIndexes(groups[req[p].group], req[p].tag))
  /\ UNCHANGED <<files, denied, call, order, fnVars, req, mutex>>

\* the second half of set_many: add
UpdateAdd(p) ==
  /\ At(p, "removed")
  /\ groups' = [groups EXCEPT ![req[p].group] = add(@, RuleParse(req[p].text).v)]
  /\ Goto(p, "changed")
  /\ Noted(p, "write", <<>>)
  /\ UNCHANGED <<files, denied, call, order, fnVars, req, mutex>>

DeleteRemoveTo(p, indexes) ==
  IF Len(indexes) = 0 THEN UNCHANGED <<groups, obs>>
  ELSE /\ groups' = [groups EXCEPT ![req[p].group] = remove_many(@, indexes)]
       /\ Noted(p, "write", <<>>)

\* delete_rule by tag
DeleteRemove(p) ==
  /\ At(p, "locked")
  /\ req[p].op = "delete"
  /\ IF req[p].group \notin DOMAIN groups
     THEN Goto(p, "finished") /\ UNCHANGED <<groups, obs>>
     ELSE /\ DeleteRemoveTo(p, MatchingIndexes(groups[req[p].group], req[p].tag))
          /\ Goto(p, "changed")
  /\ UNCHANGED <<files, denied, call, order, fnVars, req, mutex>>

\* self.save() at the end of the operation
Save(p) ==
  /\ At(p, "changed")
  /\ files' = Written(files, save(groups, files), denied)
  /\ Goto(p, "finished")
  /\ UNCHANGED <<groups, denied, call, order, fnVars, req, mutex, obs>>

\* the handler returns and the MutexGuard is dropped
Unlock(p) ==
  /\ At(p, "finished")
  /\ mutex' = IF mutex = p THEN "" ELSE mutex
  /\ Goto(p, "done")
  /\ UNCHANGED <<svcVars, fnVars, req, obs>>

NextLock ==
  \E p \in Procs :
    \/ Lock(p)
    \/ LockPoisoned(p)
    \/ GuardRead(p)
    \/ CreateAdd(p)
    \/ CreateIndex(p)
    \/ UpdateRemove(p)
    \/ UpdateAdd(p)
    \/ DeleteRemove(p)
    \/ Save(p)
    \/ Unlock(p)

SpecLock == InitLock /\ [][NextLock]_vars

Holding == {"locked", "added", "removed", "changed", "finished"}

\* C3: under every interleaving of guard and management requests, at most one
\* task is inside an operation and it holds the mutex; every access to the
\* groups is made by the holder; and no react reads the groups while an
\* update stands between its remove and its add.
C3_OperationsSerialized ==
  /\ \A p, q \in Procs : (pc[p] \in Holding /\ pc[q] \in Holding) => p = q
  /\ \A p \in Procs : pc[p] \in Holding => mutex = p
  /\ \A p \in Procs : \A i \in 1..Len(obs[p]) :
       obs[p][i].holder = p /\ ~obs[p][i].mid

\* an update holds the mutex between its remove and its add while one guard
\* request waits for the mutex and the other has already been answered
C3_Witness ==
  /\ pc["update"] = "removed"
  /\ mutex = "update"
  /\ pc["guard1"] = "start"
  /\ pc["guard2"] = "done"
  /\ Len(obs["guard2"]) = 1

----------------------------------------------------------------------------
(* Storage that cannot be written: specification SpecStorage runs the
   operations on group "default" while File::create fails for the paths in
   denied, which the environment changes between operations *)

StorageFiles == {FileName("default")}

StorageTexts == {"403|ES#b", "401|*#b"}

StorageRefs == {RulesRefAll, RulesRefIndex(0), RulesRefTag(TagMapFromQuery("b"))}

StorageVisitors == {Visitor("1.2.3.4", <<"ES">>, <<>>, "/a/")}

InitStorage ==
  /\ files = EmptyDir
  /\ denied \in SUBSET StorageFiles
  /\ groups = from_local_path(files)
  /\ order = OrderLoaded(files, groups)
  /\ call = NoCall
  /\ IdleFn
  /\ IdleLock

StorageCreate == CreateRuleOf({"default"}, StorageTexts)
StorageUpdate == UpdateRuleOf({"default"}, StorageRefs, {"401|ES"})
StorageDelete == DeleteRuleOf({"default"}, StorageRefs)
StorageReact == ReactOf({"default"}, StorageVisitors)
StorageList == ListRulesOf({"default"}, {TagMapNew})

\* the environment makes paths writable or unwritable
StorageChange ==
  /\ Free
  /\ denied' \in (SUBSET StorageFiles) \ {denied}
  /\ UNCHANGED <<groups, files, call, order, fnVars, lockVars>>

NextStorage ==
  \/ StorageCreate \/ StorageUpdate \/ StorageDelete \/ StorageReact \/ StorageList
  \/ StorageChange \/ Return

SpecStorage == InitStorage /\ [][NextStorage]_vars

Mutations == {"create_rule", "update_rule", "delete_rule"}

\* the outcome of a mutating operation on storage where every write succeeds
OnWritable(op, gs, dir, name, ref, text) ==
  CASE op = "create_rule" -> create_rule(gs, dir, name, text, "release")
    [] op = "update_rule" -> update_rule(gs, dir, name, ref, text)
    [] OTHER -> delete_rule(gs, dir, name, ref)

SameAsOnWritable(w) ==
  /\ call'.ret = w.ret
  /\ groups' = w.groups
  /\ files' = Written(files, w.files, denied)

SaveFailureStep ==
  /\ (call'.op \in Mutations /\ call'.ret.kind # "Panic")
       => SameAsOnWritable(OnWritable(call'.op, groups, files, call'.group,
                                      call'.ref, call'.text))
  /\ call'.op = "react"
       => call'.ret.reaction = <<react(groups', call'.group, call'.visitor)>>
  /\ call'.op = "list_rules_as_str"
       => call'.ret.out = list_rules_as_str(groups', call'.group, call'.ref.tag)
  /\ call'.op \notin Mutations => files' = files

\* C13: when save() cannot write a file, the operation returns what it returns
\* on writable storage and leaves the same groups in memory, the file that
\* could not be written keeps its old content, the react and list calls that
\* follow answer from the groups in memory, and nothing writes the file again
\* before the next mutating operation.
C13_SaveFailureIsIgnored == [][SaveFailureStep]_vars

\* a react answers from a group changed in memory whose file could not be
\* written: the group read back from the files would answer otherwise
C13_Witness ==
  /\ call.op = "react"
  /\ call.group \in DOMAIN groups
  /\ ~Persisted(call.group)
  /\ call.ret.reaction # <<react(from_local_path(files), call.group, call.visitor)>>

----------------------------------------------------------------------------
(* The probe of react: specification SpecProbe adds rules keyed by an IP, by
   a country and by a path, and rules without keys, to group "default" in
   every order, and lets visitors ask for "default" and for the unknown
   group "guests" *)

ProbeTexts == {"401|1.2.3.4", "403|ES", "405|ES", "404|/a", "402|1.2.0.0/16"}

ProbeVisitors ==
  {Visitor(ip, c, <<>>, uri) :
     ip \in {"1.2.3.4", "9.9.9.9"}, c \in Countries, uri \in {"/a", "/b"}}

ProbeCreate == CreateRuleOf({"default"}, ProbeTexts)
ProbeReact == ReactOf({"default", "guests"}, ProbeVisitors)

NextProbe == ProbeCreate \/ ProbeReact \/ Return

SpecProbe == Init /\ [][NextProbe]_vars

\* the keys of a visitor in the order the probe tries them: the IP, the
\* country when it is known, the URI with a slash appended when it has none
\* at its end, the URI as given
ProbeOrder(v) ==
  <<v.ip>> \o v.country
  \o (IF Len(v.uri) = 0 \/ Char(v.uri, Len(v.uri)) = "/" THEN <<>> ELSE <<v.uri \o "/">>)
  \o <<v.uri>>

\* the positions of ProbeOrder(v) whose key the index map of g holds
PresentKeys(g, v) ==
  {i \in 1..Len(ProbeOrder(v)) : ProbeOrder(v)[i] \in DOMAIN g.map_indexed}

\* the non-indexed rules of g that react to v, by position
ReactingRules(g, v) ==
  {i \in 1..Len(g.list_non_indexed) : Len(RuleReact(g.list_non_indexed[i], v)) > 0}

Least(S) == CHOOSE i \in S : \A j \in S : i <= j

\* C14: react never returns an error; it returns HttpStatus(200) when the
\* group is unknown, and when the group is known but holds none of the
\* visitor's keys in its map and no non-indexed rule that reacts.
C14_ReactDefaultsTo200 ==
  call.op = "react"
    => /\ call.ret.kind = "Ok"
       /\ Len(call.ret.reaction) = 1
       /\ call.group \notin DOMAIN groups => call.ret.reaction = <<HttpStatus(200)>>
       /\ ( /\ call.group \in DOMAIN groups
            /\ PresentKeys(Post, call.visitor) = {}
            /\ ReactingRules(Post, call.visitor) = {} )
            => call.ret.reaction = <<HttpStatus(200)>>

\* a visitor passes a group that holds indexed and non-indexed rules, none of
\* them for this visitor
C14_Witness ==
  /\ call.op = "react"
  /\ call.group \in DOMAIN groups
  /\ Len(Post.list_indexed) > 0
  /\ Len(Post.list_non_indexed) > 0
  /\ PresentKeys(Post, call.visitor) = {}
  /\ ReactingRules(Post, call.visitor) = {}
  /\ call.ret.reaction = <<HttpStatus(200)>>

\* C15: react of a known group returns the map value of the first key present
\* in the order IP, country, URI with a slash appended, URI as given; the
\* non-indexed rules decide only when no key is present.
C15_FirstPresentKeyDecides ==
  (call.op = "react" /\ call.group \in DOMAIN groups)
    => LET keys == ProbeOrder(call.visitor)
           present == PresentKeys(Post, call.visitor)
           reacting == ReactingRules(Post, call.visitor)
       IN  IF present # {}
           THEN call.ret.reaction = <<Post.map_indexed[keys[Least(present)]]>>
           ELSE IF reacting # {}
           THEN call.ret.reaction = RuleReact(Post.list_non_indexed[Least(reacting)],
                                              call.visitor)
           ELSE call.ret.reaction = <<HttpStatus(200)>>

\* the visitor's IP and country are both keys of the map, with different
\* reactions, a non-indexed rule reacts to the visitor too, and the rule of
\* the IP was added before the rule of the country
C15_Witness ==
  /\ call.op = "react"
  /\ call.group \in DOMAIN groups
  /\ Len(call.visitor.country) = 1
  /\ call.visitor.ip \in DOMAIN Post.map_indexed
  /\ call.visitor.country[1] \in DOMAIN Post.map_indexed
  /\ Post.map_indexed[call.visitor.ip] # Post.map_indexed[call.visitor.country[1]]
  /\ ReactingRules(Post, call.visitor) # {}
  /\ call.visitor.ip \in {index_keys(Post.list_indexed[1])[k] :
                             k \in 1..Len(index_keys(Post.list_indexed[1]))}
  /\ call.ret.reaction = <<Post.map_indexed[call.visitor.ip]>>

----------------------------------------------------------------------------
(* The tag filter on its own: specification SpecTags draws an optional query
   and the tags of a rule, builds the filter and applies it *)

MaxTags == 2

TagNames == {"blacklist", "temp", "vip"}

RECURSIVE TagLists(_)
\* the lists of at most n tags
TagLists(n) ==
  IF n = 0 THEN {<<>>}
  ELSE TagLists(n - 1)
       \cup {Append(l, t) : l \in {k \in TagLists(n - 1) : Len(k) = n - 1}, t \in TagNames}

\* None, or Some(query)
OptionalQueries ==
  {<<>>, <<"">>, <<"blacklist">>, <<"-temp">>, <<"blacklist,-temp">>, <<"temp,vip">>,
   <<"-temp,-vip">>, <<"blacklist,-blacklist">>}

InitTags ==
  /\ fin \in {[query |-> q, tags |-> l] : q \in OptionalQueries, l \in TagLists(MaxTags)}
  /\ fout = <<>>
  /\ IdleService
  /\ IdleLock

\* the filter of the query matched against the tags of a rule
ApplyTagFilter ==
  /\ fout = <<>>
  /\ fout' = <<TagMapMatches(OptionTags(fin.query), fin.tags)>>
  /\ UNCHANGED <<fin, svcVars, lockVars>>

NextTags == ApplyTagFilter

SpecTags == InitTags /\ [][NextTags]_vars

TagSet(tags) == {tags[i] : i \in 1..Len(tags)}

\* C17: a filter matches a rule exactly when no tag of the rule is in its
\* excluding set and its including set is empty or holds a tag of the rule;
\* "blacklist,-temp" matches the tags [blacklist] and matches neither
\* [blacklist, temp] nor a rule without tags.
C17_TagFilterSemantics ==
  Len(fout) = 1
    => LET tm == OptionTags(fin.query)
       IN  /\ fout[1] = ( /\ TagSet(fin.tags) \cap tm.excluding = {}
                          /\ (tm.including = {} \/ TagSet(fin.tags) \cap tm.including # {}) )
           /\ fin.query = <<"blacklist,-temp">>
                => /\ tm = [including |-> {"blacklist"}, excluding |-> {"temp"}]
                   /\ fin.tags = <<"blacklist">> => fout[1]
                   /\ fin.tags = <<"blacklist", "temp">> => ~fout[1]
                   /\ fin.tags = <<>> => ~fout[1]

\* the filter "blacklist,-temp" has turned down the tags [blacklist, temp]
C17_Witness ==
  /\ fin.query = <<"blacklist,-temp">>
  /\ fin.tags = <<"blacklist", "temp">>
  /\ fout = <<FALSE>>

\* C18: the filter built with no query, and the filter built from the empty
\* query string, match every rule, tagged or not.
C18_EmptyFilterMatchesAll ==
  (Len(fout) = 1 /\ fin.query \in {<<>>, <<"">>}) => fout[1]

\* the part of C18 about the filter with empty sets: it matches every rule
C18_FilterWithEmptySetsMatchesAll ==
  (Len(fout) = 1 /\ OptionTags(fin.query) = TagMapNew) => fout[1]

----------------------------------------------------------------------------
(* Reading and writing a group: specification SpecReadWrite draws a text of
   canonical lines, reads a group from it and writes the group back *)

MaxLines == 3

CandidateLines ==
  {"403|ES", "401|-JP", "301|127.0.0.1,/a/|/b/", "401|#t", "404|/a", "401|*"}

\* the lines that are the serialized form of the rule they parse to
CanonicalLines ==
  {l \in CandidateLines : RuleParse(l).ok /\ RuleToString(RuleParse(l).v) = l}

RECURSIVE LineLists(_)
\* the non-empty lists of at most n canonical lines
LineLists(n) ==
  IF n = 0 THEN {}
  ELSE {<<l>> : l \in CanonicalLines}
       \cup LineLists(n - 1)
       \cup {Append(k, l) : k \in {j \in LineLists(n - 1) : Len(j) = n - 1},
                            l \in CanonicalLines}

RECURSIVE TextOf(_)
\* the lines, each ended by a newline
TextOf(lines) == IF Len(lines) = 0 THEN "" ELSE Head(lines) \o "\n" \o TextOf(Tail(lines))

InitReadWrite ==
  /\ fin \in {[text |-> TextOf(l)] : l \in LineLists(MaxLines)}
  /\ fout = <<>>
  /\ IdleService
  /\ IdleLock

\* SecurityGroup::from_reader on the text, then to_writer
ReadAndWrite ==
  /\ fout = <<>>
  /\ fout' = <<to_writer(from_reader("default", fin.text))>>
  /\ UNCHANGED <<fin, svcVars, lockVars>>

NextReadWrite == ReadAndWrite

SpecReadWrite == InitReadWrite /\ [][NextReadWrite]_vars

\* the line is the line of a rule with index keys
Keyed(line) == Len(index_keys(RuleParse(line).v)) > 0

RECURSIVE LinesWhere(_, _)
\* the lines that are keyed (b = TRUE) or not keyed (b = FALSE), in order
LinesWhere(lines, b) ==
  IF Len(lines) = 0 THEN <<>>
  ELSE (IF Keyed(Head(lines)) = b THEN <<Head(lines)>> ELSE <<>>)
       \o LinesWhere(Tail(lines), b)

\* no line without index keys stands before a line with index keys
KeyedLinesFirst(lines) ==
  \A i, j \in 1..Len(lines) : (i < j /\ Keyed(lines[j])) => Keyed(lines[i])

----------------------------------------------------------------------------
(* References that select nothing: specification SpecNames creates rules in
   group "default" and lets updates and deletes address "default" and the
   group "guests", which is never created, by All, by every index up to
   MaxRules and by tag *)

NamesTexts == {"403|ES#b", "401|*#t"}

NamesAsked == {"default", "guests"}

NamesCreate == CreateRuleOf({"default"}, NamesTexts)
NamesUpdate == UpdateRuleOf(NamesAsked, Refs, {"401|ES", BadText})
NamesDelete == DeleteRuleOf(NamesAsked, Refs)

NextNames == NamesCreate \/ NamesUpdate \/ NamesDelete \/ Return

SpecNames == Init /\ [][NextNames]_vars

UnknownGroup == call.group \notin DOMAIN call.pre

IndexPastEnd ==
  /\ call.group \in DOMAIN call.pre
  /\ call.ref.kind = "Index"
  /\ call.ref.index >= count(Pre)

\* C21: update_rule returns an error and leaves every group as it was when the
\* group is unknown, when the reference is All, and when it is an index at or
\* past count; delete_rule by such an index does the same.
C21_RejectedReferenceChangesNothing ==
  /\ (call.op = "update_rule" /\ (UnknownGroup \/ call.ref.kind = "All" \/ IndexPastEnd))
       => (call.ret.kind = "Err" /\ groups = call.pre)
  /\ (call.op = "delete_rule" /\ IndexPastEnd)
       => (call.ret.kind = "Err" /\ groups = call.pre)

\* an update by the index just past the last rule of a group that holds rules,
\* with a text that parses, has been refused
C21_Witness ==
  /\ call.op = "update_rule"
  /\ IndexPastEnd
  /\ call.ref.index = count(Pre)
  /\ count(Pre) > 0
  /\ RuleParse(call.text).ok
  /\ call.ret.kind = "Err"

\* C22: delete_rule on a group that does not exist returns Ok for every kind
\* of reference, changes no group and does not create the group.
C22_DeleteOnUnknownGroupIsNoOp ==
  (call.op = "delete_rule" /\ UnknownGroup)
    => /\ call.ret.kind = "Ok"
       /\ groups = call.pre
       /\ call.group \notin DOMAIN groups

\* a delete of every rule of "guests" returned Ok while "default" held rules
C22_Witness ==
  /\ call.op = "delete_rule"
  /\ UnknownGroup
  /\ call.ref.kind = "All"
  /\ call.ret.kind = "Ok"
  /\ \E n \in DOMAIN groups : count(groups[n]) > 0

----------------------------------------------------------------------------
(* Lines by their number of parts: specification SpecParse draws a line whose
   body has one to MaxBodyParts parts between pipes, parses it and writes the
   parsed rule back *)

MaxBodyParts == 4

StatusParts ==
  {"", "0", "200", "301", "302", "403", "+404", "0404", "65535", "65536", "abc", "-1", "3o1"}

MiddleParts == {"", "*", "US", "/a", "^/a", "US,/a", "/a,/b", "/api/metrics"}

LastParts == {"", "/x", "/metrics"}

RECURSIVE BodiesOf(_)
\* the bodies of exactly n parts
BodiesOf(n) ==
  IF n = 1 THEN MiddleParts
  ELSE IF n = 2 THEN {s \o "|" \o m : s \in StatusParts, m \in MiddleParts}
  ELSE {b \o "|" \o l : b \in BodiesOf(n - 1), l \in LastParts}

ParseLines ==
  UNION {BodiesOf(n) : n \in 1..MaxBodyParts} \cup {b \o "#t" : b \in BodiesOf(2)}

InitParse ==
  /\ fin \in {[text |-> t] : t \in ParseLines}
  /\ fout = <<>>
  /\ IdleService
  /\ IdleLock

\* Rule::parse of the line
ParseLine ==
  /\ fout = <<>>
  /\ fout' = <<RuleParse(fin.text)>>
  /\ UNCHANGED <<fin, svcVars, lockVars>>

\* Rule::to_string of the parsed rule
WriteParsed ==
  /\ Len(fout) = 1
  /\ fout[1].ok
  /\ fout' = Append(fout, RuleToString(fout[1].v))
  /\ UNCHANGED <<fin, svcVars, lockVars>>

NextParse == ParseLine \/ WriteParsed

SpecParse == InitParse /\ [][NextParse]_vars

\* the line without its tags, split at the pipes
BodyParts == Split(Split(fin.text, "#")[1], "|")

Parsed == Len(fout) >= 1

\* C23: a line whose body has four or more parts is refused with an error;
\* no rule comes out of it.
C23_FourPartsAreRefused ==
  (Parsed /\ Len(BodyParts) >= 4) => ~fout[1].ok

RECURSIVE DigitsValue(_)
\* the number a string of digits denotes
DigitsValue(s) ==
  IF Len(s) = 0 THEN 0
  ELSE 10 * DigitsValue(SubSeq(s, 1, Len(s) - 1)) + DigitVal(Char(s, Len(s)))

\* the digits of a text that Rust reads as an unsigned integer: the text, or
\* the text after one leading plus sign
Unsigned(s) == IF Len(s) > 0 /\ Char(s, 1) = "+" THEN SubSeq(s, 2, Len(s)) ELSE s

\* the text denotes an unsigned 16-bit integer
IsU16(s) ==
  /\ Len(Unsigned(s)) \in 1..6
  /\ \A i \in 1..Len(Unsigned(s)) : Char(Unsigned(s), i) \in Digits
  /\ DigitsValue(Unsigned(s)) <= 65535

\* C24: a body of two parts fails with "invalid HTTP status" exactly when its
\* first part is no unsigned 16-bit integer and gives HttpStatus(code)
\* otherwise; a body of three parts fails with "redirect HTTP status expected
\* 301 or 302" exactly when its first part is neither, and gives the
\* permanent or temporary redirect to its third part otherwise; a body of one
\* part gives HttpStatus(200).
C24_ReactionOfBody ==
  Parsed
    => LET parts == BodyParts
           got == fout[1]
       IN  /\ Len(parts) = 1 => (got.ok /\ got.v.reaction = HttpStatus(200))
           /\ Len(parts) = 2
                => IF IsU16(parts[1])
                   THEN got.ok /\ got.v.reaction = HttpStatus(DigitsValue(Unsigned(parts[1])))
                   ELSE ~got.ok /\ got.err = "invalid HTTP status"
           /\ Len(parts) = 3
                => IF parts[1] = "301"
                   THEN got.ok /\ got.v.reaction = PermanentRedirect(parts[3])
                   ELSE IF parts[1] = "302"
                   THEN got.ok /\ got.v.reaction = TemporaryRedirect(parts[3])
                   ELSE ~got.ok /\ got.err = "redirect HTTP status expected 301 or 302"

\* a status one past the largest unsigned 16-bit integer has been refused
C24_Witness ==
  /\ Parsed
  /\ Len(BodyParts) = 2
  /\ BodyParts[1] = "65536"
  /\ ~fout[1].ok
  /\ fout[1].err = "invalid HTTP status"

\* the tokens of the part that holds the access and target lists
ListTokens == Split(IF Len(BodyParts) = 1 THEN BodyParts[1] ELSE BodyParts[2], ",")

DefaultRule == Rule(<<From(SourceAny)>>, <<TargetAny>>, HttpStatus(200), <<>>)

\* C25: a parsed rule has at least one access entry and at least one target;
\* without a target token the target list is [Any], without an access token
\* the access list is [From(Any)], and "" and "*" parse to the default rule.
C25_ParsedListsAreNonEmpty ==
  (Parsed /\ fout[1].ok)
    => /\ Len(fout[1].v.access) >= 1
       /\ Len(fout[1].v.target) >= 1
       /\ (\A i \in 1..Len(ListTokens) : ~IsTargetToken(ListTokens[i]))
            => fout[1].v.target = <<TargetAny>>
       /\ (\A i \in 1..Len(ListTokens) : IsTargetToken(ListTokens[i]))
            => fout[1].v.access = <<From(SourceAny)>>
       /\ fin.text \in {"", "*"} => fout[1].v = DefaultRule

\* a line of one target and no access token came out with access [From(Any)]
C25_Witness ==
  /\ Parsed
  /\ fin.text = "403|/a"
  /\ fout[1].ok
  /\ fout[1].v.access = <<From(SourceAny)>>
  /\ fout[1].v.target = <<Path("/a")>>

\* a line 301|targets|location or 302|targets|location without tags
RedirectLine ==
  /\ Len(Split(fin.text, "#")) = 1
  /\ Len(BodyParts) = 3
  /\ BodyParts[1] \in {"301", "302"}
  /\ \A i \in 1..Len(ListTokens) : IsTargetToken(ListTokens[i])

\* C26: a line 30x|targets|location parses to the targets of its middle part
\* and the redirect to its location, and the parsed rule is written back as
\* the same line; "301|/api/metrics|/metrics" is such a line.
C26_RedirectLineRoundTrip ==
  /\ (Parsed /\ RedirectLine)
       => /\ fout[1].ok
          /\ fout[1].v.target = TargetsOf(ListTokens)
          /\ fout[1].v.reaction =
               (IF BodyParts[1] = "301" THEN PermanentRedirect(BodyParts[3])
                ELSE TemporaryRedirect(BodyParts[3]))
          /\ Len(fout) = 2 => fout[2] = fin.text
  /\ (Parsed /\ fin.text = "301|/api/metrics|/metrics")
       => /\ fout[1].ok
          /\ fout[1].v.target = <<Path("/api/metrics")>>
          /\ fout[1].v.reaction = PermanentRedirect("/metrics")

\* a temporary redirect of two targets has been parsed and written back
C26_Witness ==
  /\ fin.text = "302|/a,/b|/x"
  /\ Len(fout) = 2
  /\ fout[1].v.target = <<Path("/a"), Path("/b")>>
  /\ fout[2] = "302|/a,/b|/x"

----------------------------------------------------------------------------
(* Loading a directory that holds other files: specification SpecLoad starts
   from a directory with two rules files and two files of other names, and
   runs operations on group "default" *)

LoadDir ==
  [f \in {"default.rules.txt", "admin.rules.txt", "notes.txt", "README.md"} |->
     CASE f = "default.rules.txt" -> "403|ES#b\n"
       [] f = "admin.rules.txt" -> "# office\n200|1.2.3.4\n"
       [] f = "notes.txt" -> "call Bob\n"
       [] OTHER -> "# traefik-guard\n"]

LoadTexts == {"401|*#t", "401|ES"}

LoadRefs == {RulesRefAll, RulesRefIndex(0)}

InitLoad == InitService({LoadDir}) /\ IdleFn /\ IdleLock

LoadCreate == CreateRuleOf({"default"}, LoadTexts)
LoadDelete == DeleteRuleOf({"default"}, LoadRefs)
LoadReact == ReactOf({"default", "admin"}, Visitors)

NextLoad == LoadCreate \/ LoadDelete \/ LoadReact \/ Return

SpecLoad == InitLoad /\ [][NextLoad]_vars

\* the file name has the form <name>.rules.txt
IsRulesFile(f) ==
  /\ Len(f) > Len(Suffix)
  /\ SubSeq(f, Len(f) - Len(Suffix) + 1, Len(f)) = Suffix

\* <name> of <name>.rules.txt
GroupOfFile(f) == SubSeq(f, 1, Len(f) - Len(Suffix))

\* C27: the groups of a service loaded from a directory are the <name> of its
\* files <name>.rules.txt; a file of another name is no group, and no save
\* rewrites it.
C27_OnlyRulesFilesAreGroups ==
  /\ DOMAIN groups = {GroupOfFile(f) : f \in {h \in DOMAIN LoadDir : IsRulesFile(h)}}
  /\ \A f \in DOMAIN LoadDir :
       ~IsRulesFile(f) => (f \in DOMAIN files /\ files[f] = LoadDir[f])

\* the part of C27 about the files of other names: every save leaves them as
\* they were
C27_OtherFilesAreNotRewritten ==
  \A f \in DOMAIN LoadDir :
    ~IsRulesFile(f) => (f \in DOMAIN files /\ files[f] = LoadDir[f])

----------------------------------------------------------------------------
(* The target phase of Rule::react: specification SpecTarget draws a rule
   built from a list of targets and a list of access entries, and a visitor
   with one of several URIs, and its one action applies the rule *)

MaxTargets == 2

TargetPool ==
  {TargetAny, Path("/a"), Path("/a/"), Path(""), PathPrefix("/a"), PathPrefix("/b/")}

RECURSIVE TargetLists(_)
\* the lists of at most n targets, the empty list included
TargetLists(n) ==
  IF n = 0 THEN {<<>>}
  ELSE TargetLists(n - 1)
       \cup {Append(l, t) : l \in {k \in TargetLists(n - 1) : Len(k) = n - 1}, t \in TargetPool}

TargetAccessLists ==
  {<<From(SourceAny)>>, <<From(FromCountry("US"))>>, <<Excluding(FromCountry("US"))>>,
   <<From(SourceAny), Excluding(FromCountry("US"))>>}

TargetUris == {"", "/", "/a", "/a/", "/a//", "/ab", "/b", "/b/c"}

TargetVisitors ==
  {Visitor("9.9.9.9", c, <<>>, u) : c \in {<<>>, <<"US">>}, u \in TargetUris}

InitTarget ==
  /\ fin \in {[rule |-> Rule(a, t, HttpStatus(403), <<>>), visitor |-> v] :
                a \in TargetAccessLists, t \in TargetLists(MaxTargets), v \in TargetVisitors}
  /\ fout = <<>>
  /\ IdleService
  /\ IdleLock

\* Rule::react(visitor) on the rule as built
ReactToVisitor ==
  /\ fout = <<>>
  /\ fout' = <<RuleReact(fin.rule, fin.visitor)>>
  /\ UNCHANGED <<fin, svcVars, lockVars>>

NextTarget == ReactToVisitor

SpecTarget == InitTarget /\ [][NextTarget]_vars

\* the URIs a target stands for: a path for itself and itself followed by one
\* "/", a prefix for every URI that starts with it, Any for every URI
TargetHolds(tg, uri) ==
  CASE tg.t = "Path" -> uri \in {tg.v, tg.v \o "/"}
    [] tg.t = "PathPrefix" -> Len(uri) >= Len(tg.v) /\ SubSeq(uri, 1, Len(tg.v)) = tg.v
    [] OTHER -> TRUE

SomeTargetHolds == \E i \in 1..Len(fin.rule.target) : TargetHolds(fin.rule.target[i], fin.visitor.uri)

\* C29: a rule none of whose targets matches the visitor's URI yields no
\* reaction, whatever its access list; a rule one of whose targets matches
\* yields what its access list alone decides (the reaction itself when the
\* access list is the lone "*"). A Path matches its path and its path followed
\* by one "/", a PathPrefix the URIs that start with it, Any every URI. The
\* rule has at least one target, as every rule has.
C29_TargetPhase ==
  (Len(fout) = 1 /\ Len(fin.rule.target) > 0)
    => /\ ~SomeTargetHolds => fout[1] = <<>>
       /\ SomeTargetHolds
            => /\ fout[1] = RuleReact([fin.rule EXCEPT !.target = <<TargetAny>>], fin.visitor)
               /\ fin.rule.access = <<From(SourceAny)>> => fout[1] = <<fin.rule.reaction>>

\* the rule for the path "/a" has reacted to the visitor of "/a/", whom its
\* second target does not match
C29_Witness ==
  /\ Len(fout) = 1
  /\ fin.rule.target = <<Path("/a"), PathPrefix("/b/")>>
  /\ fin.rule.access = <<From(SourceAny)>>
  /\ fin.visitor.uri = "/a/"
  /\ fout[1] = <<HttpStatus(403)>>

\* the rule for the path "/a" and the lone "*" has passed over the visitor of
\* "/a//"
C29_WitnessNoMatch ==
  /\ Len(fout) = 1
  /\ fin.rule.target = <<Path("/a")>>
  /\ fin.rule.access = <<From(SourceAny)>>
  /\ fin.visitor.uri = "/a//"
  /\ fout[1] = <<>>

----------------------------------------------------------------------------
(* Index keys and the list a rule is added to: specification SpecIndex draws
   a group, empty or holding one indexed rule, and a rule built from lists of
   access entries and targets, and its one action adds the rule *)

MaxEntries == 2

IndexAccessPool ==
  {From(SourceAny), From(FromIpv4("1.2.3.4")), From(FromCountry("US")),
   Excluding(FromCountry("US")), Excluding(FromIpv4("1.2.3.4")),
   From(FromCity("Paris")), From(FromIpv4Network("1.2.0.0/16"))}

IndexTargetPool == {TargetAny, Path("/a"), Path("/b/"), PathPrefix("/a")}

RECURSIVE EntryLists(_, _)
\* the non-empty lists of at most n entries of a pool
EntryLists(pool, n) ==
  IF n = 0 THEN {}
  ELSE {<<e>> : e \in pool}
       \cup EntryLists(pool, n - 1)
       \cup {Append(l, e) : l \in {k \in EntryLists(pool, n - 1) : Len(k) = n - 1}, e \in pool}

IndexGroups ==
  {SecurityGroupNew("default"),
   add(SecurityGroupNew("default"),
       Rule(<<From(FromCountry("US"))>>, <<TargetAny>>, HttpStatus(401), <<>>))}

InitIndex ==
  /\ fin \in {[group |-> g, rule |-> Rule(a, t, HttpStatus(403), <<>>)] :
                g \in IndexGroups,
                a \in EntryLists(IndexAccessPool, MaxEntries),
                t \in EntryLists(IndexTargetPool, MaxEntries)}
  /\ fout = <<>>
  /\ IdleService
  /\ IdleLock

\* SecurityGroup::add(rule)
AddRule ==
  /\ fout = <<>>
  /\ fout' = <<add(fin.group, fin.rule)>>
  /\ UNCHANGED <<fin, svcVars, lockVars>>

NextIndex == AddRule

SpecIndex == InitIndex /\ [][NextIndex]_vars

\* the keys of a path: the path, and the path with a trailing "/"
KeysOfPath(p) == IF Char(p, Len(p)) = "/" THEN {p} ELSE {p, p \o "/"}

\* the index keys of a rule as a set: of a rule whose access list is the lone
\* "*", the keys of its Path targets; of any other rule whose target list is
\* the lone Any, the addresses and countries of its From entries; of a rule
\* constrained on both axes, none
IndexKeysOf(r) ==
  IF r.access = <<From(SourceAny)>>
  THEN UNION {KeysOfPath(r.target[i].v) : i \in {j \in 1..Len(r.target) : r.target[j].t = "Path"}}
  ELSE IF r.target = <<TargetAny>>
  THEN {r.access[i].s.v :
          i \in {j \in 1..Len(r.access) :
                   r.access[j].k = "From" /\ r.access[j].s.t \in {"FromIpv4", "FromCountry"}}}
  ELSE {}

\* C30: add appends the rule to the indexed list exactly when the rule has an
\* index key, and to the non-indexed list otherwise, and the map gains exactly
\* the rule's keys: per Path target p and p with a trailing "/" when the access
\* list is the lone "*", else per From address or From country when the target
\* list is the lone Any, else none.
C30_AddPlacesByIndexKeys ==
  Len(fout) = 1
    => LET r == fin.rule
           g == fin.group
           K == IndexKeysOf(r)
       IN  /\ DOMAIN fout[1].map_indexed = DOMAIN g.map_indexed \cup K
           /\ K # {} => /\ fout[1].list_indexed = Append(g.list_indexed, r)
                        /\ fout[1].list_non_indexed = g.list_non_indexed
           /\ K = {} => /\ fout[1].list_indexed = g.list_indexed
                        /\ fout[1].list_non_indexed = Append(g.list_non_indexed, r)

\* a rule of an address, an excluded country and a city on every URI has been
\* added as an indexed rule under its address alone
C30_Witness ==
  /\ Len(fout) = 1
  /\ fin.group = SecurityGroupNew("default")
  /\ fin.rule.access = <<From(FromIpv4("1.2.3.4")), Excluding(FromCountry("US"))>>
  /\ fin.rule.target = <<TargetAny>>
  /\ DOMAIN fout[1].map_indexed = {"1.2.3.4"}
  /\ fout[1].list_indexed = <<fin.rule>>

\* a rule of a country on a path, constrained on both axes, has been added as
\* a non-indexed rule
C30_WitnessBothAxes ==
  /\ Len(fout) = 1
  /\ fin.rule.access = <<From(FromCountry("US"))>>
  /\ fin.rule.target = <<Path("/a")>>
  /\ fout[1].list_non_indexed = <<fin.rule>>
  /\ fout[1].map_indexed = fin.group.map_indexed

----------------------------------------------------------------------------
(* A group of one rule against the rule itself: specification SpecSingle
   starts from an empty directory, creates rules of several shapes in group
   "default" and lets visitors of two addresses, countries, cities and URIs
   ask for its reaction *)

SingleTexts == {"401|1.2.3.4,-US", "403|1.2.3.4,Paris", "404|/a", "402|US", "405|-US"}

SingleVisitors ==
  {Visitor(ip, c, t, u) :
     ip \in {"1.2.3.4", "9.9.9.9"}, c \in {<<>>, <<"US">>},
     t \in {<<>>, <<"Paris">>}, u \in {"/a", "/b"}}

SingleCreate == CreateRuleOf({"default"}, SingleTexts)
SingleReact == ReactOf({"default"}, SingleVisitors)

NextSingle == SingleCreate \/ SingleReact \/ Return

SpecSingle == Init /\ [][NextSingle]_vars

\* react has answered for a group that holds exactly one rule
ReactedOnSingle ==
  /\ call.op = "react"
  /\ call.group \in DOMAIN groups
  /\ count(Post) = 1

\* what the rule alone decides: its reaction, or the default 200
DecisionOf(r, v) == IF Len(RuleReact(r, v)) = 1 THEN RuleReact(r, v) ELSE <<HttpStatus(200)>>

\* C31: for a group holding exactly one rule, react returns what the rule
\* itself decides for the visitor: the rule's reaction when Rule::react yields
\* one, HttpStatus(200) otherwise.
C31_SingleRuleGroupAgreesWithRule ==
  ReactedOnSingle => call.ret.reaction = DecisionOf(AllRules(Post)[1], call.visitor)

\* the part of C31 that the code keeps: a single rule in the non-indexed list
\* decides as the rule itself
C31_NonIndexedSingleRuleAgrees ==
  (ReactedOnSingle /\ Len(Post.list_non_indexed) = 1)
    => call.ret.reaction = DecisionOf(Post.list_non_indexed[1], call.visitor)

----------------------------------------------------------------------------
(* The keys of the index map: specification SpecKeys starts from an empty
   directory and creates, updates and deletes rules keyed on an address, on a
   country and on both in group "default" *)

KeysTexts == {"401|1.2.3.4#a", "403|ES#b", "405|ES,1.2.3.4#a", "404|*#b"}

KeysRefs == {RulesRefIndex(0), RulesRefIndex(1), RulesRefTag(TagMapFromQuery("a"))}

KeysCreate == CreateRuleOf({"default"}, KeysTexts)
KeysUpdate == UpdateRuleOf({"default"}, KeysRefs, {"402|ES#a"})
KeysDelete == DeleteRuleOf({"default"}, KeysRefs)

NextKeys == KeysCreate \/ KeysUpdate \/ KeysDelete \/ Return

SpecKeys == Init /\ [][NextKeys]_vars

\* C33: after any sequence of operations no key of the index map is stale:
\* every key of the map is an index key of a rule that is in the indexed list,
\* and the reaction stored under it is the reaction of such a rule.
C33_NoStaleKey ==
  \A n \in DOMAIN groups :
    \A k \in DOMAIN groups[n].map_indexed :
      \E i \in 1..Len(groups[n].list_indexed) :
        /\ k \in KeySet(groups[n].list_indexed[i])
        /\ groups[n].map_indexed[k] = groups[n].list_indexed[i].reaction

\* the rule of an address has been deleted by its index from before the rule
\* of a country, and the map has kept the country alone
C33_Witness ==
  /\ DeletedByIndex
  /\ DOMAIN Pre.map_indexed = {"1.2.3.4", "ES"}
  /\ DOMAIN Post.map_indexed = {"ES"}
  /\ Len(Post.list_indexed) = 1

----------------------------------------------------------------------------
(* The guard handler from the request to the response: specification
   SpecGuard.  Two guard requests and one create request run as tasks on the
   one Mutex<AppState>; the group "default" is loaded from one of several
   directories, the first guard request comes from an IPv4 or an IPv6 client
   and its GeoIP lookup succeeds or fails.  A panic of a task that holds the
   MutexGuard poisons the mutex. *)

GuardProcs == {"guard1", "guard2", "create"}

GuardDirs ==
  {[f \in {FileName("default")} |-> text] :
     text \in {"403|127.0.0.1\n401|ES\n", "99|ES\n403|127.0.0.1\n",
               "403|127.0.0.1\n301|/a|/b\n302|/c|http://x/\ry\n"}}

\* the client address that the ClientIp extractor hands to the handler
IpV4(addr) == [v |-> 4, addr |-> addr]
IpV6(addr) == [v |-> 6, addr |-> addr]

\* the city record of the GeoIP database for an address
Geo(country, city) == [country |-> country, city |-> city]

GuardReq(ip, uri, lookup, root) ==
  [op |-> "react", group |-> "default", text |-> "", tag |-> TagMapNew,
   visitor |-> NoVisitor, build |-> "", ip |-> ip, uri |-> uri, lookup |-> lookup,
   root |-> root]

GuardClients == {IpV4("127.0.0.1"), IpV4("9.9.9.9"), IpV6("2001:db8::1")}

GuardLookups == {Err("lookup ip in maxmind db"), Ok(Geo(<<>>, <<>>)), Ok(Geo(<<"ES">>, <<>>))}

GuardRequests ==
  {[p \in Procs |->
      CASE p = "guard1" -> GuardReq(ip, uri, lookup, root)
        [] p = "guard2" -> GuardReq(IpV4("9.9.9.9"), "/b", Ok(Geo(<<>>, <<>>)), <<>>)
        [] OTHER -> Req("create", "default", "402|GB", TagMapNew, NoVisitor, "release")] :
     ip \in GuardClients, uri \in {"/a?x=1", "/c"}, lookup \in GuardLookups,
     root \in {<<>>, <<"https://h">>}}

InitGuard ==
  /\ InitService(GuardDirs)
  /\ IdleFn
  /\ req \in GuardRequests
  /\ pc = [p \in Procs |-> IF p \in GuardProcs THEN "start" ELSE "done"]
  /\ mutex = ""
  /\ obs = [p \in Procs |-> <<>>]

\* nice_uri: the URI up to its first "?"
nice_uri(uri) == Split(uri, "?")[1]

\* Visit::no_ip
no_ip(uri) == Visitor("127.0.0.1", <<>>, <<>>, nice_uri(uri))

\* the Ipv4Addr that handle_visitor derives from the client address
ClientIpv4(ip) == IF ip.v = 4 THEN ip.addr ELSE "127.0.0.1"

\* MmReader::visit, or Visit::no_ip when the lookup fails
VisitorOf(r) ==
  IF r.lookup.ok
  THEN Visitor(ClientIpv4(r.ip), r.lookup.v.country, r.lookup.v.city, nice_uri(r.uri))
  ELSE no_ip(r.uri)

RECURSIVE TrimStartSlashes(_)
TrimStartSlashes(s) ==
  IF Len(s) > 0 /\ Char(s, 1) = "/" THEN TrimStartSlashes(SubSeq(s, 2, Len(s))) ELSE s

\* get_location_header before HeaderValue::from_str
get_location_header(to, root) ==
  IF \E i \in 1..(Len(to) - 2) : SubSeq(to, i, i + 2) = "://" THEN to
  ELSE IF Len(root) = 1 THEN root[1] \o "/" \o TrimStartSlashes(to)
  ELSE to

\* HeaderValue::from_str is Ok: no control character other than the tab
HeaderValueOk(s) == \A i \in 1..Len(s) : Char(s, i) \notin {"\r", "\n", "\f"}

\* StatusCode::from_u16 is Ok
StatusCodeOk(code) == 100 <= code /\ code <= 999

\* builder.status(..).header("Location", ..).body(..).unwrap() does not panic
ResponseBuilds(reaction, root) ==
  IF reaction.t = "HttpStatus" THEN StatusCodeOk(reaction.code)
  ELSE HeaderValueOk(get_location_header(reaction.loc, root))

GuardAnswerWith(p, v, reaction) ==
  IF ResponseBuilds(reaction, req[p].root)
  THEN /\ obs' = [obs EXCEPT ![p] = Append(@, [visitor |-> v, reaction |-> reaction])]
       /\ Goto(p, "finished")
       /\ UNCHANGED mutex
  ELSE /\ Goto(p, "panicked")
       /\ mutex' = "poisoned"
       /\ UNCHANGED obs

\* handle_visitor under the lock: the visitor, state.svc.react, the response
GuardAnswer(p) ==
  /\ At(p, "locked")
  /\ req[p].op = "react"
  /\ GuardAnswerWith(p, VisitorOf(req[p]), react(groups, req[p].group, VisitorOf(req[p])))
  /\ UNCHANGED <<svcVars, fnVars, req>>

GuardStep(p) ==
  \/ Lock(p)
  \/ LockPoisoned(p)
  \/ GuardAnswer(p)
  \/ CreateAdd(p)
  \/ CreateIndex(p)
  \/ Save(p)
  \/ Unlock(p)

NextGuard == \E p \in Procs : GuardStep(p)

Guards == {"guard1", "guard2"}

\* a guard task that holds the lock is run until it has answered, and one that
\* has answered until it has returned
SpecGuard ==
  /\ InitGuard
  /\ [][NextGuard]_vars
  /\ \A p \in Guards : WF_vars(GuardAnswer(p)) /\ WF_vars(Unlock(p))

\* C37: every guard request that acquires the lock produces a response in the
\* end and releases the lock unpoisoned, whatever reaction the rules carry.
C37_GuardAnswersAndReleases ==
  \A p \in Guards : (pc[p] = "locked") ~> (pc[p] = "done" /\ mutex # "poisoned")

\* the safety half of C37: no task ever leaves the lock poisoned
C37_LockNeverPoisoned == mutex # "poisoned"

\* the part of C37 that the code keeps: a guard request whose reaction is a
\* status code from 100 to 999, or a redirect to a location free of control
\* characters, is answered
C37_BuildableReactionIsAnswered ==
  \A p \in Guards :
    (pc[p] = "locked" /\ ResponseBuilds(react(groups, req[p].group, VisitorOf(req[p])), req[p].root))
      ~> (pc[p] = "done")

\* C38: the visitor of a guard request carries the address of the client: the
\* rule keyed on 127.0.0.1, the only rule that answers 403, reacts only to
\* requests from 127.0.0.1, also for an IPv6 client and for a failed lookup.
C38_AddressRuleReactsToItsAddressOnly ==
  \A p \in Guards :
    \A i \in 1..Len(obs[p]) :
      /\ obs[p][i].visitor.ip = req[p].ip.addr
      /\ obs[p][i].reaction = HttpStatus(403) => req[p].ip = IpV4("127.0.0.1")

\* the part of C38 that the code keeps: an IPv4 client whose lookup succeeds
\* is evaluated under its own address
C38_FoundIpv4ClientKeepsAddress ==
  \A p \in Guards :
    \A i \in 1..Len(obs[p]) :
      (req[p].ip.v = 4 /\ req[p].lookup.ok) => obs[p][i].visitor.ip = req[p].ip.addr

----------------------------------------------------------------------------
(* Two groups side by side: specification SpecGroups starts from an empty
   directory and runs every operation on the groups "default" and "guests" *)

BothGroups == {"default", "guests"}

GroupsTexts == {"403|ES#b", "401|*#t"}

GroupsRefs == {RulesRefIndex(0), RulesRefTag(TagMapFromQuery("b"))}

GroupsVisitors == {Visitor("1.2.3.4", <<"ES">>, <<>>, "/a/")}

GroupsCreate == CreateRuleOf(BothGroups, GroupsTexts)
GroupsUpdate == UpdateRuleOf(BothGroups, GroupsRefs, {"402|ES#b"})
GroupsDelete == DeleteRuleOf(BothGroups, GroupsRefs)
GroupsReact == ReactOf(BothGroups, GroupsVisitors)
GroupsList == ListRulesOf(BothGroups, {TagMapNew})

NextGroups ==
  GroupsCreate \/ GroupsUpdate \/ GroupsDelete \/ GroupsReact \/ GroupsList \/ Return

SpecGroups == Init /\ [][NextGroups]_vars

\* C39: create_rule, update_rule and delete_rule on a group leave the map and
\* the two lists of every other group as they were, and add or remove no
\* other group; react and list change no group at all.
C39_GroupsAreIsolated ==
  /\ call.op \in {"create_rule", "update_rule", "delete_rule"}
       => /\ DOMAIN groups \subseteq DOMAIN call.pre \cup {call.group}
          /\ \A n \in DOMAIN call.pre \ {call.group} :
               n \in DOMAIN groups /\ groups[n] = call.pre[n]
  /\ call.op \in {"react", "list_rules_as_str"} => groups = call.pre

\* an update has changed group "default" next to a group "guests" that holds
\* rules
C39_Witness ==
  /\ call.op = "update_rule"
  /\ call.group = "default"
  /\ BothGroups \subseteq DOMAIN call.pre
  /\ count(call.pre["guests"]) > 0
  /\ groups["default"] # call.pre["default"]
  /\ groups["guests"] = call.pre["guests"]
====
